---- MODULE Spec2Model ----
(***************************************************************************)
(* Model of the fastlane MCP server core: the Fastfile lane parser         *)
(* (discovery/lanes.py), the pre-flight validators and their orchestrator  *)
(* (validators/), the build tools that drive them (tools/build.py,         *)
(* utils/executor.py, utils/sanitize.py, errors/diagnosis.py), the path    *)
(* helpers (utils/paths.py), the lane listing and project analysis tools   *)
(* (tools/lanes.py, tools/analyze.py), the tool lookups dispatched          *)
(* concurrently, and two requests served by one event loop.                 *)
(*                                                                         *)
(* Text is a sequence of one-character strings, so that the regular        *)
(* expressions and the strip/startswith calls of the code are computed     *)
(* character by character.                                                 *)
(***************************************************************************)
EXTENDS Integers, Sequences, FiniteSets, TLC

VARIABLES
    content,           \* parser: the lines of the text iterated so far (ids into LineText)
    lanes,             \* parser: the LaneInfo records appended so far
    current_platform,  \* parser: loop variable
    last_description,  \* parser: loop variable
    req,               \* request: the tool or function called, with its arguments
    fastfiles,         \* filesystem: the Fastfile locations that exist in a project directory
    pc,                \* request: the await point or step the request is at
    ctx,               \* run_preflight: the PreflightContext
    issues,            \* run_preflight: issues
    tool_idx,          \* validate_tools: index of the next tool of the loop
    calls,             \* the validators and execute_fastlane calls made, with arguments
    procs,             \* the external processes started, with their results
    read_text,         \* validate_project: the Fastfile text read (line ids), or None
    preflight,         \* the ValidationResult returned by run_preflight, or None
    outcome,           \* what the request returned or raised, or None
    environ,           \* os.environ of the server process
    file_text,         \* list_lanes: the text (line ids) of each Fastfile of the project
    listed,            \* list_lanes: what each call made so far returned or raised
    slots,             \* concurrent lookups: the state of the lookup of each tool entry
    gathered,          \* concurrent lookups: the issues collected
    parked             \* the requests suspended at an await, with their local state

parseVars == <<content, lanes, current_platform, last_description>>

listVars == <<file_text, listed>>

concVars == <<slots, gathered, parked>>

requestVars ==
    <<req, fastfiles, pc, ctx, issues, tool_idx, calls, procs, read_text, preflight, outcome,
      environ, file_text, listed, slots, gathered, parked>>

vars == <<content, lanes, current_platform, last_description, req, fastfiles, pc, ctx,
          issues, tool_idx, calls, procs, read_text, preflight, outcome, environ,
          file_text, listed, slots, gathered, parked>>

(***************************************************************************)
(* Bounds                                                                  *)
(***************************************************************************)
MaxLines == 4

MaxEnvVars == 2

MaxTools == 2

(***************************************************************************)
(* Strings                                                                 *)
(***************************************************************************)
\* Python None for a str | None value. Every character of a text is a
\* one-character string, so no text equals it.
None == <<"None">>

Whitespace == {" ", "\t"}

UpperCase ==
    {"A", "B", "C", "D", "E", "F", "G", "H", "I", "J", "K", "L", "M", "N",
     "O", "P", "Q", "R", "S", "T", "U", "V", "W", "X", "Y", "Z"}

WordChars ==
    {"a", "b", "c", "d", "e", "f", "g", "h", "i", "j", "k", "l", "m", "n",
     "o", "p", "q", "r", "s", "t", "u", "v", "w", "x", "y", "z", "_",
     "0", "1", "2", "3", "4", "5", "6", "7", "8", "9"} \cup UpperCase

AnyChar == WordChars \cup Whitespace \cup {":", "#", "\"", "'", ";", "-", "."}

RECURSIVE LStrip(_)
LStrip(s) ==
    IF s # <<>> /\ Head(s) \in Whitespace THEN LStrip(Tail(s)) ELSE s

RECURSIVE RStrip(_)
RStrip(s) ==
    IF s # <<>> /\ s[Len(s)] \in Whitespace
    THEN RStrip(SubSeq(s, 1, Len(s) - 1))
    ELSE s

\* str.strip()
Strip(s) == RStrip(LStrip(s))

\* str.startswith(prefix)
StartsWith(s, prefix) ==
    Len(s) >= Len(prefix) /\ SubSeq(s, 1, Len(prefix)) = prefix

(***************************************************************************)
(* Regular-expression pieces. A position is the index of the next          *)
(* character to match; position 0 means the match has failed.              *)
(***************************************************************************)
\* a literal
MatchLit(s, i, lit) ==
    IF i > 0 /\ i + Len(lit) - 1 <= Len(s) /\ SubSeq(s, i, i + Len(lit) - 1) = lit
    THEN i + Len(lit)
    ELSE 0

RECURSIVE SkipWhile(_, _, _)
SkipWhile(s, i, cls) ==
    IF i <= Len(s) /\ s[i] \in cls THEN SkipWhile(s, i + 1, cls) ELSE i

\* cls* (greedy)
MatchStar(s, i, cls) == IF i > 0 THEN SkipWhile(s, i, cls) ELSE 0

\* cls+ (greedy)
MatchPlus(s, i, cls) ==
    IF i > 0 /\ i <= Len(s) /\ s[i] \in cls THEN SkipWhile(s, i, cls) ELSE 0

\* $ at position i
AtEnd(s, i) == i = Len(s) + 1

NoMatch == [matched |-> FALSE, g1 |-> None, g2 |-> None]

\* re.match(r'^platform\s+:(\w+)\s+do\s*$', trimmed)
PlatformMatch(t) ==
    LET a == MatchLit(t, 1, <<"p", "l", "a", "t", "f", "o", "r", "m">>)
        b == MatchPlus(t, a, Whitespace)
        c == MatchLit(t, b, <<":">>)
        d == MatchPlus(t, c, WordChars)
        e == MatchPlus(t, d, Whitespace)
        f == MatchLit(t, e, <<"d", "o">>)
        g == MatchStar(t, f, Whitespace)
    IN  IF AtEnd(t, g)
        THEN [matched |-> TRUE, g1 |-> SubSeq(t, c, d - 1), g2 |-> None]
        ELSE NoMatch

\* one alternative of the desc pattern: q([^q]+)q\s*$ from position i
QuotedMatch(t, i, q) ==
    LET c == MatchLit(t, i, <<q>>)
        d == MatchPlus(t, c, AnyChar \ {q})
        e == MatchLit(t, d, <<q>>)
        f == MatchStar(t, e, Whitespace)
    IN  IF AtEnd(t, f) THEN SubSeq(t, c, d - 1) ELSE None

\* re.match(r'^desc\s+(?:"([^"]+)"|\'([^\']+)\')\s*$', trimmed)
DescMatch(t) ==
    LET a == MatchLit(t, 1, <<"d", "e", "s", "c">>)
        b == MatchPlus(t, a, Whitespace)
        dq == QuotedMatch(t, b, "\"")
        sq == QuotedMatch(t, b, "'")
    IN  IF dq # None THEN [matched |-> TRUE, g1 |-> dq, g2 |-> None]
        ELSE IF sq # None THEN [matched |-> TRUE, g1 |-> None, g2 |-> sq]
        ELSE NoMatch

\* LaneMatch with the private_lane alternative left out of the pattern
LaneMatchPlainOnly(t) ==
    LET a == MatchLit(t, 1, <<"l", "a", "n", "e">>)
        b == MatchPlus(t, a, Whitespace)
        c == MatchLit(t, b, <<":">>)
        d == MatchPlus(t, c, WordChars)
        e == MatchPlus(t, d, Whitespace)
        f == MatchLit(t, e, <<"d", "o">>)
    IN  IF f > 0
        THEN [matched |-> TRUE, g1 |-> SubSeq(t, 1, a - 1), g2 |-> SubSeq(t, c, d - 1)]
        ELSE NoMatch

\* re.match(r'^(private_lane|lane)\s+:(\w+)\s+do', trimmed)
LaneMatch(t) ==
    LET kwPrivate == <<"p", "r", "i", "v", "a", "t", "e", "_", "l", "a", "n", "e">>
        kwLane == <<"l", "a", "n", "e">>
        p == MatchLit(t, 1, kwPrivate)
        a == IF p > 0 THEN p ELSE MatchLit(t, 1, kwLane)
        b == MatchPlus(t, a, Whitespace)
        c == MatchLit(t, b, <<":">>)
        d == MatchPlus(t, c, WordChars)
        e == MatchPlus(t, d, Whitespace)
        f == MatchLit(t, e, <<"d", "o">>)
    IN  IF f > 0
        THEN [matched |-> TRUE, g1 |-> SubSeq(t, 1, a - 1), g2 |-> SubSeq(t, c, d - 1)]
        ELSE NoMatch

(***************************************************************************)
(* The lines a Fastfile text is drawn from (content.split('\n')).          *)
(***************************************************************************)
LineText ==
    << <<" ", " ">>,
       <<"#", " ", "l", "a", "n", "e", " ", ":", "b", " ", "d", "o">>,
       <<"p", "l", "a", "t", "f", "o", "r", "m", " ", ":", "i", "o", "s", " ", "d", "o">>,
       <<"p", "l", "a", "t", "f", "o", "r", "m", " ", ":", "a", "n", "d", "r", "o", "i", "d",
         " ", "d", "o">>,
       <<"p", "l", "a", "t", "f", "o", "r", "m", " ", ":", "m", "a", "c", " ", "d", "o">>,
       <<" ", " ", "d", "e", "s", "c", " ", "\"", "a", " ", "b", "\"">>,
       <<"d", "e", "s", "c", " ", "'", "c", "'">>,
       <<" ", " ", "l", "a", "n", "e", " ", ":", "b", " ", "d", "o">>,
       <<"l", "a", "n", "e", " ", ":", "_", "x", " ", "d", "o">>,
       <<"p", "r", "i", "v", "a", "t", "e", "_", "l", "a", "n", "e", " ", ":", "h", " ",
         "d", "o">>,
       <<" ", " ", "e", "n", "d">>,
       <<" ", " ", " ", " ", "g", "y", "m">> >>

LineIds == 1..Len(LineText)

\* trimmed = line.strip(), and the three re.match results of a line. These are
\* tables over the line ids, so each line is matched once.
Trimmed == [l \in LineIds |-> Strip(LineText[l])]

platform_match == [l \in LineIds |-> PlatformMatch(Trimmed[l])]

desc_match == [l \in LineIds |-> DescMatch(Trimmed[l])]

lane_match == [l \in LineIds |-> LaneMatch(Trimmed[l])]

(***************************************************************************)
(* parse_lanes_from_fastfile: one action per branch of the loop body. The  *)
(* loop is a single forward pass, so the state after the last line of a    *)
(* text is what the function returns for that text; content holds the      *)
(* lines iterated so far.                                                  *)
(***************************************************************************)
IOS == <<"i", "o", "s">>
ANDROID == <<"a", "n", "d", "r", "o", "i", "d">>
END == <<"e", "n", "d">>
PRIVATE_LANE == <<"p", "r", "i", "v", "a", "t", "e", "_", "l", "a", "n", "e">>

(***************************************************************************)
(* Values that stand for "not there yet" in the request state.             *)
(***************************************************************************)
\* Python None for a path (a sequence of segments)
NoPath == << <<"None">> >>

NoContext == [built |-> FALSE]

NoResult == [returned |-> FALSE]

NoOutcome == [kind |-> "none"]

\* no Fastfile text has been read (0 is no line id)
NoText == <<0>>

(***************************************************************************)
(* utils/sanitize.py                                                       *)
(***************************************************************************)
Letters ==
    {"a", "b", "c", "d", "e", "f", "g", "h", "i", "j", "k", "l", "m", "n",
     "o", "p", "q", "r", "s", "t", "u", "v", "w", "x", "y", "z"} \cup UpperCase

\* [a-zA-Z0-9_-]
SafeLaneChars == WordChars \cup {"-"}

\* DANGEROUS_CHARS = re.compile(r'[;&|`$(){}[\]<>!#*?~\\"\']')
DANGEROUS_CHARS ==
    {";", "&", "|", "`", "$", "(", ")", "{", "}", "[", "]", "<", ">", "!", "#",
     "*", "?", "~", "\\", "\"", "'"}

\* pattern.search(s) for a one-character class
SearchClass(s, cls) == \E i \in 1..Len(s) : s[i] \in cls

\* SafeLaneMatch with any safe character allowed in first place
SafeLaneMatchAnyFirst(s) ==
    s # <<>> /\ AtEnd(s, MatchStar(s, 1, SafeLaneChars))

\* SAFE_LANE_PATTERN = re.compile(r'^[a-zA-Z][a-zA-Z0-9_-]*$'), .match(s)
SafeLaneMatch(s) ==
    LET a == MatchPlus(s, 1, Letters)
        b == IF a > 0 THEN 2 ELSE 0
        c == MatchStar(s, b, SafeLaneChars)
    IN  AtEnd(s, c)

Rejected(message) == [ok |-> FALSE, value |-> None, error |-> message]

\* sanitize_lane_name returning its argument as it is
sanitize_lane_nameUnchecked(lane) == [ok |-> TRUE, value |-> lane, error |-> ""]

\* sanitize_lane_name: the value returned, or the ValidationError raised
sanitize_lane_name(lane) ==
    IF lane = None \/ lane = <<>>
    THEN Rejected("Lane name must be a non-empty string")
    ELSE LET trimmed == Strip(lane)
         IN  IF trimmed = <<>>
             THEN Rejected("Lane name must be a non-empty string")
             ELSE IF SearchClass(trimmed, DANGEROUS_CHARS)
             THEN Rejected("Lane name contains invalid characters")
             ELSE IF ~SafeLaneMatch(trimmed)
             THEN Rejected("Invalid lane name format")
             ELSE [ok |-> TRUE, value |-> trimmed, error |-> ""]

\* Contains looking for the needle at the start of s only
ContainsAtStart(s, needle) ==
    Len(needle) <= Len(s) /\ SubSeq(s, 1, Len(needle)) = needle

\* needle in s (substring)
Contains(s, needle) ==
    \E i \in 1..(Len(s) - Len(needle) + 1) : SubSeq(s, i, i + Len(needle) - 1) = needle

\* s.split(sep) for a one-character separator
RECURSIVE Split(_, _)
Split(s, sep) ==
    IF \A i \in 1..Len(s) : s[i] # sep
    THEN <<s>>
    ELSE LET k == CHOOSE i \in 1..Len(s) :
                      s[i] = sep /\ \A j \in 1..(i - 1) : s[j] # sep
         IN  <<SubSeq(s, 1, k - 1)>> \o Split(SubSeq(s, k + 1, Len(s)), sep)

DotDot == <<".", ".">>

\* InSeq holding for every list
InSeqAlways(x, seq) == TRUE

\* x in seq
InSeq(x, seq) == \E i \in 1..Len(seq) : seq[i] = x

\* the working directory of the server process
Cwd == << <<"w">> >>

\* Path(path).resolve(): made absolute against the working directory, with
\* empty and "." segments dropped and ".." segments applied
RECURSIVE Normalize(_, _)
Normalize(done, rest) ==
    IF rest = <<>> THEN done
    ELSE IF Head(rest) = <<>> \/ Head(rest) = <<".">>
    THEN Normalize(done, Tail(rest))
    ELSE IF Head(rest) = DotDot
    THEN Normalize(IF done = <<>> THEN done ELSE SubSeq(done, 1, Len(done) - 1),
                   Tail(rest))
    ELSE Normalize(Append(done, Head(rest)), Tail(rest))

Resolve(path) ==
    IF path[1] = "/"
    THEN Normalize(<<>>, Split(path, "/"))
    ELSE Normalize(Cwd, Split(path, "/"))

\* the filesystem above the project: two directories and one regular file
Directories ==
    { << <<"w">>, <<"p">> >>,
      << <<"w">>, <<"a", ".", ".", "b">> >>,
      << <<"w">> >>,
      <<>> }

RegularFiles == { << <<"w">>, <<"f">> >> }

PathExists(p) == p \in Directories \cup RegularFiles

PathIsDir(p) == p \in Directories

PathRejected(message) == [ok |-> FALSE, value |-> NoPath, error |-> message]

\* validate_project_path: the resolved Path returned, or the ValidationError raised
validate_project_path(path) ==
    IF path = None \/ path = <<>>
    THEN PathRejected("Path must be a non-empty string")
    ELSE IF Contains(path, DotDot) /\ InSeq(DotDot, Split(path, "/"))
    THEN PathRejected("Path contains suspicious traversal")
    ELSE LET p == Resolve(path)
         IN  IF ~PathExists(p) THEN PathRejected("Path does not exist")
             ELSE IF ~PathIsDir(p) THEN PathRejected("Path is not a directory")
             ELSE [ok |-> TRUE, value |-> p, error |-> ""]

(***************************************************************************)
(* utils/paths.py                                                          *)
(***************************************************************************)
FASTLANE_DIR == <<"f", "a", "s", "t", "l", "a", "n", "e">>

FASTFILE == <<"F", "a", "s", "t", "f", "i", "l", "e">>

\* the Fastfile locations of a project, relative to the project directory
NestedFastfile(platform) == <<platform, FASTLANE_DIR, FASTFILE>>

RootFastfile == <<FASTLANE_DIR, FASTFILE>>

\* (dir / "Fastfile").exists() for a file inside a project directory
FastfileExists(project_path, file) ==
    \E rel \in fastfiles : file = project_path \o rel

\* find_fastlane_dir looking at the root-level directory first
find_fastlane_dirRootFirst(project_path, platform) ==
    LET platform_dir == project_path \o <<platform, FASTLANE_DIR>>
        root_dir == project_path \o <<FASTLANE_DIR>>
    IN  IF FastfileExists(project_path, Append(root_dir, FASTFILE))
        THEN root_dir
        ELSE IF platform # None /\ platform # <<>>
                /\ FastfileExists(project_path, Append(platform_dir, FASTFILE))
        THEN platform_dir
        ELSE NoPath

\* find_fastlane_dir(project_path, platform)
find_fastlane_dir(project_path, platform) ==
    LET platform_dir == project_path \o <<platform, FASTLANE_DIR>>
        root_dir == project_path \o <<FASTLANE_DIR>>
    IN  IF platform # None /\ platform # <<>>
           /\ FastfileExists(project_path, Append(platform_dir, FASTFILE))
        THEN platform_dir
        ELSE IF FastfileExists(project_path, Append(root_dir, FASTFILE))
        THEN root_dir
        ELSE NoPath

\* find_execution_dir staying at the root when a root-level Fastfile exists
find_execution_dirRootFirst(project_path, platform) ==
    LET platform_dir == project_path \o <<platform, FASTLANE_DIR>>
        root_dir == project_path \o <<FASTLANE_DIR>>
    IN  IF FastfileExists(project_path, Append(platform_dir, FASTFILE))
           /\ ~FastfileExists(project_path, Append(root_dir, FASTFILE))
        THEN Append(project_path, platform)
        ELSE project_path

\* find_execution_dir staying at the project root
find_execution_dirAlwaysRoot(project_path, platform) == project_path

\* find_execution_dir(project_path, platform)
find_execution_dir(project_path, platform) ==
    LET platform_dir == project_path \o <<platform, FASTLANE_DIR>>
    IN  IF FastfileExists(project_path, Append(platform_dir, FASTFILE))
        THEN Append(project_path, platform)
        ELSE project_path

(***************************************************************************)
(* validators/: the issues, the three validators, the orchestrator's       *)
(* verdict. A message is the tuple of the parts its f-string joins.        *)
(***************************************************************************)
\* os.environ: one variable set, one set to the empty string, any other unset
Environ == [n \in {"SET_VAR", "EMPTY_VAR"} |-> IF n = "SET_VAR" THEN <<"v">> ELSE <<>>]

\* EnvironGet with the empty string as its default
EnvironGetOrEmpty(var_name) ==
    IF var_name \in DOMAIN environ THEN environ[var_name] ELSE <<>>

\* os.environ.get(var_name)
EnvironGet(var_name) == IF var_name \in DOMAIN environ THEN environ[var_name] ELSE None

ValidationIssue(level, code, message, suggestion) ==
    [level |-> level, code |-> code, message |-> message, suggestion |-> suggestion]

\* validate_environment(required_vars)
RECURSIVE validate_environment(_)
validate_environment(required_vars) ==
    IF required_vars = <<>> THEN <<>>
    ELSE LET var_name == Head(required_vars)
             value == EnvironGet(var_name)
             found ==
                 IF value = None
                 THEN <<ValidationIssue("ERROR", "ENV_MISSING",
                            <<"Required environment variable not set: ", var_name>>,
                            <<"Set ", var_name, " in your environment or .env file">>)>>
                 ELSE IF value = <<>>
                 THEN <<ValidationIssue("WARNING", "ENV_EMPTY",
                            <<"Environment variable is empty: ", var_name>>,
                            <<"Verify ", var_name, " has the correct value">>)>>
                 ELSE <<>>
         IN  found \o validate_environment(Tail(required_vars))

TOOL_INSTALL_HINTS ==
    [t \in {"fastlane", "xcodebuild", "gradle", "bundler", "pod", "ruby"} |->
        CASE t = "fastlane" -> <<"Install with: gem install fastlane OR brew install fastlane">>
          [] t = "xcodebuild" -> <<"Install Xcode from the App Store">>
          [] t = "gradle" -> <<"Install with: brew install gradle">>
          [] t = "bundler" -> <<"Install with: gem install bundler">>
          [] t = "pod" -> <<"Install with: gem install cocoapods">>
          [] t = "ruby" -> <<"Install with: brew install ruby">>]

\* ToolMissing with the generic suggestion for every tool
ToolMissingGenericHint(tool_name) ==
    ValidationIssue("ERROR", "TOOL_MISSING",
        <<"Required tool not found: ", tool_name>>,
        <<"Install ", tool_name, " and ensure it's in your PATH">>)

\* the issue validate_tools appends for a tool whose lookup exits non-zero
ToolMissing(tool_name) ==
    ValidationIssue("ERROR", "TOOL_MISSING",
        <<"Required tool not found: ", tool_name>>,
        IF tool_name \in DOMAIN TOOL_INSTALL_HINTS
        THEN TOOL_INSTALL_HINTS[tool_name]
        ELSE <<"Install ", tool_name, " and ensure it's in your PATH">>)

\* the text of a file whose lines are the given LineText ids ('\n'-joined)
RECURSIVE FileText(_)
FileText(ids) ==
    IF ids = <<>> THEN <<>>
    ELSE IF Len(ids) = 1 THEN LineText[ids[1]]
    ELSE LineText[ids[1]] \o <<"\n">> \o FileText(Tail(ids))

Truthy(str) == str # None /\ str # <<>>

\* validate_project reads the Fastfile: one was found and a lane was given
ReadsFastfile(project_path, platform, lane) ==
    find_fastlane_dir(project_path, platform) # NoPath /\ Truthy(lane)

\* validate_project naming the root-level path alone in NO_FASTFILE
validate_projectRootPathOnly(project_path, platform, lane, text) ==
    IF find_fastlane_dir(project_path, platform) = NoPath
    THEN <<ValidationIssue("ERROR", "NO_FASTFILE",
               <<"Fastfile not found at ", project_path \o <<FASTLANE_DIR, FASTFILE>> >>,
               <<"Run 'fastlane init' to create a Fastfile">>)>>
    ELSE IF Truthy(lane)
            /\ ~Contains(FileText(text), <<"l", "a", "n", "e", " ", ":">> \o lane)
    THEN <<ValidationIssue("WARNING", "LANE_NOT_FOUND",
               <<"Lane '", lane, "' not found in Fastfile">>,
               <<"Available lanes can be listed with 'fastlane lanes'">>)>>
    ELSE <<>>

\* validate_project(project_path, platform, lane); text is what
\* fastfile.read_text() returns when the file is read
validate_project(project_path, platform, lane, text) ==
    LET project == project_path
        fastlane_dir == find_fastlane_dir(project, platform)
    IN  IF fastlane_dir = NoPath
        THEN IF Truthy(platform)
             THEN <<ValidationIssue("ERROR", "NO_FASTFILE",
                        <<"Fastfile not found at ",
                          project \o <<platform, FASTLANE_DIR, FASTFILE>>,
                          " or ",
                          project \o <<FASTLANE_DIR, FASTFILE>> >>,
                        <<"Run 'fastlane init' to create a Fastfile">>)>>
             ELSE <<ValidationIssue("ERROR", "NO_FASTFILE",
                        <<"Fastfile not found at ",
                          project \o <<FASTLANE_DIR, FASTFILE>> >>,
                        <<"Run 'fastlane init' to create a Fastfile">>)>>
        ELSE IF Truthy(lane)
                /\ ~Contains(FileText(text), <<"l", "a", "n", "e", " ", ":">> \o lane)
                /\ ~Contains(FileText(text),
                             <<"p", "r", "i", "v", "a", "t", "e", "_",
                               "l", "a", "n", "e", " ", ":">> \o lane)
        THEN <<ValidationIssue("WARNING", "LANE_NOT_FOUND",
                   <<"Lane '", lane, "' not found in Fastfile">>,
                   <<"Available lanes can be listed with 'fastlane lanes'">>)>>
        ELSE <<>>

\* HasErrors counting an issue of any level
HasErrorsAnyLevel(found) == found # <<>>

\* has_errors = any(i.level == IssueLevel.ERROR for i in issues)
HasErrors(found) == \E i \in 1..Len(found) : found[i].level = "ERROR"

ValidationResult(valid, found) == [returned |-> TRUE, valid |-> valid, issues |-> found]

\* ValidationResult.format_issues(): the lines joined by '\n'
RECURSIVE FormatIssues(_)
FormatIssues(found) ==
    IF found = <<>> THEN <<>>
    ELSE LET issue == Head(found)
             icon == IF issue.level = "ERROR" THEN "X" ELSE "!"
         IN  << <<"[", icon, "] ", issue.message>> >>
             \o (IF issue.suggestion # <<>>
                 THEN << <<"    -> ", issue.suggestion>> >>
                 ELSE <<>>)
             \o FormatIssues(Tail(found))

PreflightContext(project_path, platform, lane, required_env_vars, required_tools) ==
    [built |-> TRUE, project_path |-> project_path, platform |-> platform, lane |-> lane,
     required_env_vars |-> required_env_vars, required_tools |-> required_tools]

(***************************************************************************)
(* errors/: the pattern table and diagnose_error. Process output is a      *)
(* sequence of fragments; a pattern is found in a text when one of the     *)
(* phrases of its alternation is a fragment of the text.                   *)
(***************************************************************************)
ERROR_PATTERNS ==
    << [id |-> "no_signing_certificate",
        phrases |-> {"No signing certificate", "Code Sign error", "No certificate"},
        message |-> "Code signing certificate not found"],
       [id |-> "no_provisioning_profile",
        phrases |-> {"No provisioning profile", "couldn't find provisioning profile"},
        message |-> "Provisioning profile not found"],
       [id |-> "timeout_error",
        phrases |-> {"timed out", "timeout", "Operation timed out"},
        message |-> "Operation timed out"] >>

\* pattern.pattern.search(error_output)
PatternSearch(pattern, error_output) ==
    \E i \in 1..Len(error_output) : error_output[i] \in pattern.phrases

\* diagnose_error(error_output)
diagnose_error(error_output) ==
    LET hits == {k \in 1..Len(ERROR_PATTERNS) : PatternSearch(ERROR_PATTERNS[k], error_output)}
    IN  IF hits # {}
        THEN LET first == CHOOSE k \in hits : \A h \in hits : k <= h
             IN  [matched |-> TRUE, message |-> ERROR_PATTERNS[first].message]
        ELSE [matched |-> FALSE, message |-> "Build or command failed"]

\* no request is running while the parser is exercised
RequestIdle ==
    /\ req = [op |-> "none"]
    /\ fastfiles = {}
    /\ pc = "idle"
    /\ ctx = NoContext
    /\ issues = <<>>
    /\ tool_idx = 1
    /\ calls = <<>>
    /\ procs = <<>>
    /\ read_text = NoText
    /\ preflight = NoResult
    /\ outcome = NoOutcome
    /\ environ = Environ
    /\ file_text = <<>>
    /\ listed = <<>>
    /\ slots = <<>>
    /\ gathered = <<>>
    /\ parked = <<>>

ParseInit ==
    /\ content = <<>>
    /\ lanes = <<>>
    /\ current_platform = None
    /\ last_description = None
    /\ RequestIdle

\* if not trimmed or trimmed.startswith('#')
IsSkipped(t) == t = <<>> \/ StartsWith(t, <<"#">>)

\* the branch of the loop body that line l takes
IsSkippedLine(l) == IsSkipped(Trimmed[l])

IsPlatformLine(l) == ~IsSkippedLine(l) /\ platform_match[l].matched

IsDescLine(l) ==
    ~IsSkippedLine(l) /\ ~platform_match[l].matched /\ desc_match[l].matched

IsLaneLine(l) ==
    /\ ~IsSkippedLine(l)
    /\ ~platform_match[l].matched
    /\ ~desc_match[l].matched
    /\ lane_match[l].matched

IsEndLine(l) ==
    /\ ~IsSkippedLine(l)
    /\ ~platform_match[l].matched
    /\ ~desc_match[l].matched
    /\ ~lane_match[l].matched
    /\ Trimmed[l] = END

\* IsPrivate without the underscore test
IsPrivateFormOnly(lane_type, name) == lane_type = PRIVATE_LANE

\* is_private = lane_type == 'private_lane' or name.startswith('_')
IsPrivate(lane_type, name) == lane_type = PRIVATE_LANE \/ StartsWith(name, <<"_">>)

\* desc_match.group(1) or desc_match.group(2)
DescText(m) == IF m.g1 # None THEN m.g1 ELSE m.g2

SkipLine(l) ==
    /\ Len(content) < MaxLines
    /\ IsSkippedLine(l)
    /\ content' = Append(content, l)
    /\ UNCHANGED <<lanes, current_platform, last_description, requestVars>>

\* PlatformLine dropping the platform on a platform it does not know
PlatformLineResetUnknown(l) ==
    /\ Len(content) < MaxLines
    /\ IsPlatformLine(l)
    /\ LET platform == platform_match[l].g1
       IN  current_platform' = IF platform \in {IOS, ANDROID} THEN platform ELSE None
    /\ content' = Append(content, l)
    /\ UNCHANGED <<lanes, last_description, requestVars>>

PlatformLine(l) ==
    /\ Len(content) < MaxLines
    /\ IsPlatformLine(l)
    /\ LET platform == platform_match[l].g1
       IN  current_platform' =
               IF platform \in {IOS, ANDROID} THEN platform ELSE current_platform
    /\ content' = Append(content, l)
    /\ UNCHANGED <<lanes, last_description, requestVars>>

DescLine(l) ==
    /\ Len(content) < MaxLines
    /\ IsDescLine(l)
    /\ last_description' = DescText(desc_match[l])
    /\ content' = Append(content, l)
    /\ UNCHANGED <<lanes, current_platform, requestVars>>

\* LaneLine without the reset of last_description
LaneLineKeepDesc(l) ==
    /\ Len(content) < MaxLines
    /\ IsLaneLine(l)
    /\ LET m == lane_match[l]
       IN  lanes' = Append(lanes, [name |-> m.g2,
                                   platform |-> current_platform,
                                   description |-> last_description,
                                   is_private |-> IsPrivate(m.g1, m.g2)])
    /\ content' = Append(content, l)
    /\ UNCHANGED <<current_platform, last_description, requestVars>>

LaneLine(l) ==
    /\ Len(content) < MaxLines
    /\ IsLaneLine(l)
    /\ LET m == lane_match[l]
       IN  lanes' = Append(lanes, [name |-> m.g2,
                                   platform |-> current_platform,
                                   description |-> last_description,
                                   is_private |-> IsPrivate(m.g1, m.g2)])
    /\ last_description' = None
    /\ content' = Append(content, l)
    /\ UNCHANGED <<current_platform, requestVars>>

EndLine(l) ==
    /\ Len(content) < MaxLines
    /\ IsEndLine(l)
    /\ current_platform # None
    /\ current_platform' = None
    /\ content' = Append(content, l)
    /\ UNCHANGED <<lanes, last_description, requestVars>>

OtherLine(l) ==
    /\ Len(content) < MaxLines
    /\ ~IsSkippedLine(l)
    /\ ~IsPlatformLine(l)
    /\ ~IsDescLine(l)
    /\ ~IsLaneLine(l)
    /\ ~(IsEndLine(l) /\ current_platform # None)
    /\ content' = Append(content, l)
    /\ UNCHANGED <<lanes, current_platform, last_description, requestVars>>

ParseNext ==
    \E l \in LineIds :
        \/ SkipLine(l)
        \/ PlatformLine(l)
        \/ DescLine(l)
        \/ LaneLine(l)
        \/ EndLine(l)
        \/ OtherLine(l)

ParseSpec == ParseInit /\ [][ParseNext]_vars

(***************************************************************************)
(* Requests: build_ios / build_android (tools/build.py) and run_preflight  *)
(* called with a context of its own (validators/__init__.py). One action   *)
(* per step between await points.                                          *)
(***************************************************************************)
SeqsUpTo(S, n) == UNION {[1..k -> S] : k \in 0..n}

PROJECT_P == <<"p">>

PROJECT_DOTS == <<"a", ".", ".", "b">>

\* project_path arguments: None, "", two directories, a traversal, a
\* missing path, a regular file
PathInputs ==
    {None, <<>>, PROJECT_P, PROJECT_DOTS, <<".", ".", "/", "p">>, <<"m">>, <<"f">>}

\* lane arguments: "b", " b ", "h", "b;x", ""
LaneInputs == {<<"b">>, <<" ", "b", " ">>, <<"h">>, <<"b", ";", "x">>, <<>>}

EnvironmentInputs == {None, <<"r">>}

EnvNames == {"SET_VAR", "EMPTY_VAR", "UNSET_VAR"}

ToolNames == {"fastlane", "mytool"}

\* the Fastfile texts read_text() can return, as LineText ids
FastfileTexts == {<<8, 11>>, <<10, 11>>, <<2>>}

FastfileLocations == {NestedFastfile(IOS), NestedFastfile(ANDROID), RootFastfile}

BuildOps == {"build_ios", "build_android"}

BuildRequests ==
    [op : BuildOps, project_path : PathInputs, lane : LaneInputs,
     environment : EnvironmentInputs]

PreflightRequests ==
    {[op |-> "run_preflight", ctx |-> PreflightContext(pp, pl, ln, ev, tl)] :
        pp \in {NoPath, Cwd \o <<PROJECT_P>>}, pl \in {None, IOS}, ln \in {None, <<"b">>},
        ev \in SeqsUpTo(EnvNames, MaxEnvVars), tl \in SeqsUpTo(ToolNames, MaxTools)}

\* the exit codes of a `which` lookup, and the results of a fastlane run
WhichExitCodes == {0, 1}

Streams ==
    {<<>>, <<"Installing">>, <<"No signing certificate">>, <<"No provisioning profile">>}

FastlaneResults == [exit_code : {0, 1}, stdout : Streams, stderr : Streams]

\* the request looks into a project directory
UsesProject(r) ==
    IF r.op \in BuildOps
    THEN validate_project_path(r.project_path).ok
    ELSE r.ctx.project_path # NoPath

BuildPlatform(op) == IF op = "build_ios" THEN IOS ELSE ANDROID

\* required_tools of the build tools
BuildTools(op) == IF op = "build_ios" THEN <<"fastlane", "xcodebuild">> ELSE <<"fastlane">>

VALID_PLATFORMS == {IOS, ANDROID}

ToolError(message) == [kind |-> "raised", type |-> "ToolError", message |-> message]

Call(fn, args) == [fn |-> fn, args |-> args]

\* a process started by execute_command; killed: proc.kill() was called on it
Process(command, args, cwd, env, result) ==
    [command |-> command, args |-> args, cwd |-> cwd, env |-> env, killed |-> FALSE,
     result |-> result]

Running == [done |-> FALSE]

ExecutionResult(stdout, stderr, exit_code) ==
    [done |-> TRUE, stdout |-> stdout, stderr |-> stderr, exit_code |-> exit_code]

\* DEFAULT_TIMEOUT = 600  # 10 minutes
DEFAULT_TIMEOUT == 600

\* how a started process goes on: it exits within the timeout with an exit
\* code and its two streams, or it is still running when the timeout expires
InTime(r) ==
    [timed_out |-> FALSE, exit_code |-> r.exit_code, stdout |-> r.stdout,
     stderr |-> r.stderr]

Expired == [timed_out |-> TRUE]

WhichCompletions ==
    {InTime([exit_code |-> e, stdout |-> <<>>, stderr |-> <<>>]) : e \in WhichExitCodes}
    \cup {Expired}

FastlaneCompletions == {InTime(r) : r \in FastlaneResults} \cup {Expired}

\* TimedOut reporting the timeout as a success
TimedOutAsSuccess(timeout) ==
    ExecutionResult(<<>>, <<"Command ", "timed out", " after ", ToString(timeout), "s">>, 0)

\* the result execute_command returns from its except asyncio.TimeoutError branch
TimedOut(timeout) ==
    ExecutionResult(<<>>, <<"Command ", "timed out", " after ", ToString(timeout), "s">>, 124)

\* execute_command from the await of proc.communicate() on: the process as it
\* is left and the ExecutionResult returned
Communicate(proc, timeout, c) ==
    IF c.timed_out
    THEN [proc EXCEPT !.killed = TRUE, !.result = TimedOut(timeout)]
    ELSE [proc EXCEPT !.result = ExecutionResult(c.stdout, c.stderr, c.exit_code)]

\* execute_command(command, args, cwd, env, timeout) run to its return
execute_command(command, args, cwd, env, timeout, c) ==
    Communicate(Process(command, args, cwd, env, Running), timeout, c)

RequestInit ==
    /\ content = <<>>
    /\ lanes = <<>>
    /\ current_platform = None
    /\ last_description = None
    /\ req \in BuildRequests \cup PreflightRequests
    /\ fastfiles \in IF UsesProject(req) THEN SUBSET FastfileLocations ELSE {{}}
    /\ pc = IF req.op \in BuildOps THEN "validate_project_path" ELSE "run_preflight"
    /\ ctx = IF req.op \in BuildOps THEN NoContext ELSE req.ctx
    /\ issues = <<>>
    /\ tool_idx = 1
    /\ calls = <<>>
    /\ procs = <<>>
    /\ read_text = NoText
    /\ preflight = NoResult
    /\ outcome = NoOutcome
    /\ environ = Environ
    /\ file_text = <<>>
    /\ listed = <<>>
    /\ slots = <<>>
    /\ gathered = <<>>
    /\ parked = <<>>

\* build_*: validate_project_path raises, re-raised as ToolError
BuildPathRejected ==
    /\ pc = "validate_project_path"
    /\ ~validate_project_path(req.project_path).ok
    /\ outcome' = ToolError([header |-> validate_project_path(req.project_path).error])
    /\ pc' = "done"
    /\ UNCHANGED <<parseVars, environ, listVars, concVars>>
    /\ UNCHANGED <<req, fastfiles, ctx, issues, tool_idx, calls, procs,
                   read_text, preflight>>

\* build_*: the path is valid; the PreflightContext is built and run_preflight called
BuildPathValidated ==
    /\ pc = "validate_project_path"
    /\ validate_project_path(req.project_path).ok
    /\ ctx' = PreflightContext(validate_project_path(req.project_path).value,
                               BuildPlatform(req.op), req.lane, <<>>, BuildTools(req.op))
    /\ pc' = "run_preflight"
    /\ UNCHANGED <<parseVars, environ, listVars, concVars>>
    /\ UNCHANGED <<req, fastfiles, issues, tool_idx, calls, procs, read_text,
                   preflight, outcome>>

\* PreflightEnvironment calling validate_environment whatever the list holds
PreflightEnvironmentAlways ==
    /\ pc = "run_preflight"
    /\ issues' = issues \o validate_environment(ctx.required_env_vars)
    /\ calls' = calls
                \o <<Call("validate_environment", <<ctx.required_env_vars>>)>>
                \o (IF ctx.required_tools # <<>>
                    THEN <<Call("validate_tools", <<ctx.required_tools>>)>>
                    ELSE <<>>)
    /\ tool_idx' = 1
    /\ pc' = IF ctx.required_tools # <<>> THEN "validate_tools" ELSE "validate_project"
    /\ UNCHANGED <<parseVars, environ, listVars, concVars>>
    /\ UNCHANGED <<req, fastfiles, ctx, procs, read_text, preflight, outcome>>

\* run_preflight up to its first await: the environment check, and the call
\* of validate_tools when tools are required
PreflightEnvironment ==
    /\ pc = "run_preflight"
    /\ issues' = IF ctx.required_env_vars # <<>>
                 THEN issues \o validate_environment(ctx.required_env_vars)
                 ELSE issues
    /\ calls' = calls
                \o (IF ctx.required_env_vars # <<>>
                    THEN <<Call("validate_environment", <<ctx.required_env_vars>>)>>
                    ELSE <<>>)
                \o (IF ctx.required_tools # <<>>
                    THEN <<Call("validate_tools", <<ctx.required_tools>>)>>
                    ELSE <<>>)
    /\ tool_idx' = 1
    /\ pc' = IF ctx.required_tools # <<>> THEN "validate_tools" ELSE "validate_project"
    /\ UNCHANGED <<parseVars, environ, listVars, concVars>>
    /\ UNCHANGED <<req, fastfiles, ctx, procs, read_text, preflight, outcome>>

\* ToolLookup reporting only the first tool that is missing
ToolLookupFirstFailureOnly ==
    /\ pc = "validate_tools"
    /\ LET tool_name == ctx.required_tools[tool_idx]
       IN  \E c \in WhichCompletions :
               LET proc == execute_command("which", <<tool_name>>, NoPath, None,
                                           DEFAULT_TIMEOUT, c)
               IN  /\ procs' = Append(procs, proc)
                   /\ issues' = IF /\ proc.result.exit_code # 0
                                   /\ \A i \in 1..Len(issues) :
                                          issues[i].code # "TOOL_MISSING"
                                THEN Append(issues, ToolMissing(tool_name))
                                ELSE issues
    /\ tool_idx' = tool_idx + 1
    /\ pc' = IF tool_idx = Len(ctx.required_tools) THEN "validate_project" ELSE pc
    /\ UNCHANGED <<parseVars, environ, listVars, concVars>>
    /\ UNCHANGED <<req, fastfiles, ctx, calls, read_text, preflight, outcome>>

\* ToolLookup putting the new issue in front of the list
ToolLookupPrepend ==
    /\ pc = "validate_tools"
    /\ LET tool_name == ctx.required_tools[tool_idx]
       IN  \E c \in WhichCompletions :
               LET proc == execute_command("which", <<tool_name>>, NoPath, None,
                                           DEFAULT_TIMEOUT, c)
               IN  /\ procs' = Append(procs, proc)
                   /\ issues' = IF proc.result.exit_code # 0
                                THEN <<ToolMissing(tool_name)>> \o issues
                                ELSE issues
    /\ tool_idx' = tool_idx + 1
    /\ pc' = IF tool_idx = Len(ctx.required_tools) THEN "validate_project" ELSE pc
    /\ UNCHANGED <<parseVars, environ, listVars, concVars>>
    /\ UNCHANGED <<req, fastfiles, ctx, calls, read_text, preflight, outcome>>

\* validate_tools: one iteration of the loop, `which <tool>` awaited
ToolLookup ==
    /\ pc = "validate_tools"
    /\ LET tool_name == ctx.required_tools[tool_idx]
       IN  \E c \in WhichCompletions :
               LET proc == execute_command("which", <<tool_name>>, NoPath, None,
                                           DEFAULT_TIMEOUT, c)
               IN  /\ procs' = Append(procs, proc)
                   /\ issues' = IF proc.result.exit_code # 0
                                THEN Append(issues, ToolMissing(tool_name))
                                ELSE issues
    /\ tool_idx' = tool_idx + 1
    /\ pc' = IF tool_idx = Len(ctx.required_tools) THEN "validate_project" ELSE pc
    /\ UNCHANGED <<parseVars, environ, listVars, concVars>>
    /\ UNCHANGED <<req, fastfiles, ctx, calls, read_text, preflight, outcome>>

\* run_preflight: the project check, the verdict, the return; a direct call
\* ends here, a build goes on with the result
PreflightProject ==
    /\ pc = "validate_project"
    /\ \E text \in IF ctx.project_path # NoPath /\ ctx.project_path # <<>>
                      /\ ReadsFastfile(ctx.project_path, ctx.platform, ctx.lane)
                   THEN FastfileTexts
                   ELSE {NoText} :
           /\ read_text' = text
           /\ issues' = IF ctx.project_path # NoPath /\ ctx.project_path # <<>>
                        THEN issues \o validate_project(ctx.project_path, ctx.platform,
                                                        ctx.lane, text)
                        ELSE issues
    /\ calls' = IF ctx.project_path # NoPath /\ ctx.project_path # <<>>
                THEN Append(calls, Call("validate_project",
                                        <<ctx.project_path, ctx.platform, ctx.lane>>))
                ELSE calls
    /\ preflight' = ValidationResult(~HasErrors(issues'), issues')
    /\ IF req.op \in BuildOps
       THEN pc' = "preflight_returned" /\ UNCHANGED outcome
       ELSE pc' = "done" /\ outcome' = [kind |-> "returned", value |-> preflight']
    /\ UNCHANGED <<parseVars, environ, listVars, concVars>>
    /\ UNCHANGED <<req, fastfiles, ctx, tool_idx, procs>>

\* PreflightBlocks on any issue, warnings included
PreflightBlocksOnAnyIssue(result) == result.issues # <<>>

\* PreflightBlocks letting every result through
PreflightBlocksNever(result) == FALSE

\* if not preflight.valid
PreflightBlocks(result) == ~result.valid

\* build_*: the pre-flight result is not valid
BuildPreflightFailed ==
    /\ pc = "preflight_returned"
    /\ PreflightBlocks(preflight)
    /\ outcome' = ToolError([header |-> "Pre-flight checks failed:",
                             body |-> FormatIssues(preflight.issues)])
    /\ pc' = "done"
    /\ UNCHANGED <<parseVars, environ, listVars, concVars>>
    /\ UNCHANGED <<req, fastfiles, ctx, issues, tool_idx, calls, procs,
                   read_text, preflight>>

\* env_vars of the build tools
EnvVars(environment) ==
    IF Truthy(environment) THEN {<<"FASTLANE_ENV", environment>>} ELSE {}

\* build_* calls execute_fastlane, which raises before it starts a process
ExecuteFastlaneRejected ==
    /\ pc = "preflight_returned"
    /\ ~PreflightBlocks(preflight)
    /\ \/ BuildPlatform(req.op) \notin VALID_PLATFORMS
       \/ ~sanitize_lane_name(req.lane).ok
    /\ calls' = Append(calls, Call("execute_fastlane",
                                   <<req.lane, BuildPlatform(req.op), ctx.project_path>>))
    /\ outcome' = IF BuildPlatform(req.op) \notin VALID_PLATFORMS
                  THEN [kind |-> "raised", type |-> "ValueError",
                        message |-> [header |-> "Invalid platform"]]
                  ELSE [kind |-> "raised", type |-> "ValidationError",
                        message |-> [header |-> sanitize_lane_name(req.lane).error]]
    /\ pc' = "done"
    /\ UNCHANGED <<parseVars, environ, listVars, concVars>>
    /\ UNCHANGED <<req, fastfiles, ctx, issues, tool_idx, procs, read_text,
                   preflight>>

\* build_* calls execute_fastlane, which starts `fastlane <safe_lane>`
ExecuteFastlaneStart ==
    /\ pc = "preflight_returned"
    /\ ~PreflightBlocks(preflight)
    /\ BuildPlatform(req.op) \in VALID_PLATFORMS
    /\ sanitize_lane_name(req.lane).ok
    /\ calls' = Append(calls, Call("execute_fastlane",
                                   <<req.lane, BuildPlatform(req.op), ctx.project_path>>))
    /\ procs' = Append(procs,
                       Process("fastlane", <<sanitize_lane_name(req.lane).value>>,
                               find_execution_dir(ctx.project_path, BuildPlatform(req.op)),
                               EnvVars(req.environment), Running))
    /\ pc' = "execute_fastlane"
    /\ UNCHANGED <<parseVars, environ, listVars, concVars>>
    /\ UNCHANGED <<req, fastfiles, ctx, issues, tool_idx, read_text, preflight,
                   outcome>>

\* result.stderr or result.stdout
StderrOrStdout(result) == IF result.stderr # <<>> THEN result.stderr ELSE result.stdout

\* _format_build_error(diagnosis, stdout, stderr); the streams of the model
\* are shorter than the 2000 characters kept of each
FormatBuildError(diagnosis, stdout, stderr) ==
    [header |-> diagnosis.message, diagnosis |-> diagnosis,
     stderr |-> stderr, stdout |-> stdout]

\* FastlaneExit running the command a second time after a first failure
FastlaneExitRetryOnce ==
    /\ pc = "execute_fastlane"
    /\ \E c \in FastlaneCompletions :
          LET proc == Communicate(procs[Len(procs)], DEFAULT_TIMEOUT, c)
              result == proc.result
              again == result.exit_code # 0 /\ Len(procs) < 4
                       /\ ~\E i \in 1..(Len(procs) - 1) : procs[i].command = "fastlane"
          IN  /\ procs' = IF again
                          THEN Append([procs EXCEPT ![Len(procs)] = proc],
                                      [proc EXCEPT !.killed = FALSE, !.result = Running])
                          ELSE [procs EXCEPT ![Len(procs)] = proc]
              /\ outcome' =
                     IF again THEN outcome
                     ELSE IF result.exit_code # 0
                     THEN ToolError(FormatBuildError(diagnose_error(StderrOrStdout(result)),
                                                     result.stdout, result.stderr))
                     ELSE [kind |-> "returned",
                           value |-> [success |-> TRUE, output |-> result.stdout]]
              /\ pc' = IF again THEN pc ELSE "done"
    /\ UNCHANGED <<parseVars, environ, listVars, concVars>>
    /\ UNCHANGED <<req, fastfiles, ctx, issues, tool_idx, calls, read_text,
                   preflight>>

\* the fastlane process exits; build_* raises on a non-zero exit code and
\* returns the output otherwise
FastlaneExit ==
    /\ pc = "execute_fastlane"
    /\ \E c \in FastlaneCompletions :
          LET proc == Communicate(procs[Len(procs)], DEFAULT_TIMEOUT, c)
              result == proc.result
          IN  /\ procs' = [procs EXCEPT ![Len(procs)] = proc]
              /\ outcome' =
                     IF result.exit_code # 0
                     THEN ToolError(FormatBuildError(diagnose_error(StderrOrStdout(result)),
                                                     result.stdout, result.stderr))
                     ELSE [kind |-> "returned",
                           value |-> [success |-> TRUE, output |-> result.stdout]]
    /\ pc' = "done"
    /\ UNCHANGED <<parseVars, environ, listVars, concVars>>
    /\ UNCHANGED <<req, fastfiles, ctx, issues, tool_idx, calls, read_text,
                   preflight>>

Next ==
    \/ BuildPathRejected
    \/ BuildPathValidated
    \/ PreflightEnvironment
    \/ ToolLookup
    \/ PreflightProject
    \/ BuildPreflightFailed
    \/ ExecuteFastlaneRejected
    \/ ExecuteFastlaneStart
    \/ FastlaneExit

Spec == RequestInit /\ [][Next]_vars

(***************************************************************************)
(* Direct calls of the helpers of utils/sanitize.py and utils/paths.py,    *)
(* one call per behaviour, with the arguments drawn at the start.          *)
(***************************************************************************)
MaxLaneLen == 3

MaxPathLen == 4

\* lane arguments: None and every text of up to MaxLaneLen characters drawn
\* from a letter of each case, a digit, the two safe signs, a shell
\* metacharacter and a blank
LaneAlphabet == {"a", "Z", "1", "_", "-", ";", " "}

LaneTexts == {None} \cup SeqsUpTo(LaneAlphabet, MaxLaneLen)

\* path arguments: the paths of the build requests and every text of up to
\* MaxPathLen characters drawn from a name character, the dot and the slash
PathAlphabet == {"p", ".", "/"}

PathTexts == PathInputs \cup SeqsUpTo(PathAlphabet, MaxPathLen)

PlatformInputs == {None, <<>>, IOS, ANDROID}

CallRequests ==
    {[op |-> "sanitize_lane_name", lane |-> l] : l \in LaneTexts}
    \cup {[op |-> "validate_project_path", path |-> t] : t \in PathTexts}
    \cup {[op |-> "find_fastlane_dir", project_path |-> Cwd \o <<PROJECT_P>>,
           platform |-> pl] : pl \in PlatformInputs}
    \cup {[op |-> "find_execution_dir", project_path |-> Cwd \o <<PROJECT_P>>,
           platform |-> pl] : pl \in VALID_PLATFORMS}

Returned(value) == [kind |-> "returned", value |-> value]

ValidationError(message) ==
    [kind |-> "raised", type |-> "ValidationError", message |-> [header |-> message]]

CallInit ==
    /\ content = <<>>
    /\ lanes = <<>>
    /\ current_platform = None
    /\ last_description = None
    /\ req \in CallRequests
    /\ fastfiles \in IF req.op \in {"find_fastlane_dir", "find_execution_dir"}
                     THEN SUBSET FastfileLocations
                     ELSE {{}}
    /\ pc = "call"
    /\ ctx = NoContext
    /\ issues = <<>>
    /\ tool_idx = 1
    /\ calls = <<>>
    /\ procs = <<>>
    /\ read_text = NoText
    /\ preflight = NoResult
    /\ outcome = NoOutcome
    /\ environ = Environ
    /\ file_text = <<>>
    /\ listed = <<>>
    /\ slots = <<>>
    /\ gathered = <<>>
    /\ parked = <<>>

CallSanitizeLaneName ==
    /\ pc = "call"
    /\ req.op = "sanitize_lane_name"
    /\ LET r == sanitize_lane_name(req.lane)
       IN  outcome' = IF r.ok THEN Returned(r.value) ELSE ValidationError(r.error)
    /\ pc' = "done"
    /\ UNCHANGED <<parseVars, environ, listVars, concVars>>
    /\ UNCHANGED <<req, fastfiles, ctx, issues, tool_idx, calls, procs, read_text, preflight>>

CallValidateProjectPath ==
    /\ pc = "call"
    /\ req.op = "validate_project_path"
    /\ LET r == validate_project_path(req.path)
       IN  outcome' = IF r.ok THEN Returned(r.value) ELSE ValidationError(r.error)
    /\ pc' = "done"
    /\ UNCHANGED <<parseVars, environ, listVars, concVars>>
    /\ UNCHANGED <<req, fastfiles, ctx, issues, tool_idx, calls, procs, read_text, preflight>>

CallFindFastlaneDir ==
    /\ pc = "call"
    /\ req.op = "find_fastlane_dir"
    /\ outcome' = Returned(find_fastlane_dir(req.project_path, req.platform))
    /\ pc' = "done"
    /\ UNCHANGED <<parseVars, environ, listVars, concVars>>
    /\ UNCHANGED <<req, fastfiles, ctx, issues, tool_idx, calls, procs, read_text, preflight>>

CallFindExecutionDir ==
    /\ pc = "call"
    /\ req.op = "find_execution_dir"
    /\ outcome' = Returned(find_execution_dir(req.project_path, req.platform))
    /\ pc' = "done"
    /\ UNCHANGED <<parseVars, environ, listVars, concVars>>
    /\ UNCHANGED <<req, fastfiles, ctx, issues, tool_idx, calls, procs, read_text, preflight>>

CallNext ==
    \/ CallSanitizeLaneName
    \/ CallValidateProjectPath
    \/ CallFindFastlaneDir
    \/ CallFindExecutionDir

CallSpec == CallInit /\ [][CallNext]_vars

(***************************************************************************)
(* list_lanes (tools/lanes.py). The tool has no await point after the path *)
(* check, so a call is one step; a behaviour is a few calls on one         *)
(* project, whose Fastfiles are drawn at the start.                        *)
(***************************************************************************)
MaxListCalls == 2

\* one iteration of the loop of parse_lanes_from_fastfile over line l, on the
\* loop variables st
ParseStep(st, l) ==
    IF IsSkippedLine(l) THEN st
    ELSE IF platform_match[l].matched
    THEN [st EXCEPT !.current_platform =
                        IF platform_match[l].g1 \in {IOS, ANDROID}
                        THEN platform_match[l].g1
                        ELSE @]
    ELSE IF desc_match[l].matched
    THEN [st EXCEPT !.last_description = DescText(desc_match[l])]
    ELSE IF lane_match[l].matched
    THEN [st EXCEPT !.lanes = Append(@, [name |-> lane_match[l].g2,
                                         platform |-> st.current_platform,
                                         description |-> st.last_description,
                                         is_private |-> IsPrivate(lane_match[l].g1,
                                                                  lane_match[l].g2)]),
                    !.last_description = None]
    ELSE IF Trimmed[l] = END /\ st.current_platform # None
    THEN [st EXCEPT !.current_platform = None]
    ELSE st

RECURSIVE ParseLoop(_, _)
ParseLoop(st, ids) ==
    IF ids = <<>> THEN st ELSE ParseLoop(ParseStep(st, Head(ids)), Tail(ids))

\* parse_lanes_from_fastfile(content) for a text given by its line ids
parse_lanes_from_fastfile(ids) ==
    ParseLoop([lanes |-> <<>>, current_platform |-> None, last_description |-> None],
              ids).lanes

\* the Fastfile texts of the projects listed: a platform block with a lane
\* and a private lane after it, an underscore lane and a described lane, a
\* private lane alone, a comment alone
ListTexts == {<<3, 8, 11, 10>>, <<9, 6, 8>>, <<10>>, <<2>>}

ListPlatforms == {None, IOS, ANDROID}

ListRequests == [op : {"list_lanes"}, project_path : PathInputs, platform : ListPlatforms]

\* dirs_to_check: the platform label and the Fastfile location of each entry
DirsToCheck(platform) ==
    IF Truthy(platform)
    THEN << [plat |-> platform, fastfile |-> NestedFastfile(platform)] >>
    ELSE << [plat |-> IOS, fastfile |-> NestedFastfile(IOS)],
            [plat |-> ANDROID, fastfile |-> NestedFastfile(ANDROID)],
            [plat |-> None, fastfile |-> RootFastfile] >>

\* Listable letting every lane through
ListableAlways(lane, include_private) == TRUE

\* not (lane.is_private and not include_private)
Listable(lane, include_private) == ~(lane.is_private /\ ~include_private)

\* the entries list_lanes appends for the lanes parsed from one Fastfile
RECURSIVE LaneEntries(_, _, _)
LaneEntries(parsed, plat, include_private) ==
    IF parsed = <<>> THEN <<>>
    ELSE LET lane == Head(parsed)
         IN  (IF Listable(lane, include_private)
              THEN << [name |-> lane.name,
                       platform |-> IF lane.platform # None THEN lane.platform ELSE plat,
                       description |-> lane.description,
                       is_private |-> lane.is_private] >>
              ELSE <<>>)
             \o LaneEntries(Tail(parsed), plat, include_private)

\* lanes_found after the loop over dirs, when no iteration raises
RECURSIVE LanesFound(_, _)
LanesFound(dirs, include_private) ==
    IF dirs = <<>> THEN <<>>
    ELSE (IF Head(dirs).fastfile \in fastfiles
          THEN LaneEntries(parse_lanes_from_fastfile(file_text[Head(dirs).fastfile]),
                           Head(dirs).plat, include_private)
          ELSE <<>>)
         \o LanesFound(Tail(dirs), include_private)

\* the first Fastfile of dirs that does not exist, when a platform was requested
MissingRequested(platform) ==
    Truthy(platform) /\ NestedFastfile(platform) \notin fastfiles

\* PlatformOr keeping what the parser gave
PlatformOrNothing(lane_platform, platform) == lane_platform

\* lane.platform or platform
PlatformOr(lane_platform, platform) ==
    IF lane_platform # None /\ lane_platform # <<>> THEN lane_platform ELSE platform

AnalyzeRequests == [op : {"analyze_project"}, project_path : PathInputs]

\* the entries analyze_project appends for the lanes of a platform-nested Fastfile
AnalyzeNested(parsed, platform) ==
    [k \in 1..Len(parsed) |->
        [name |-> parsed[k].name,
         platform |-> PlatformOr(parsed[k].platform, platform),
         description |-> parsed[k].description,
         is_private |-> parsed[k].is_private]]

\* the entries analyze_project appends for the lanes of the root-level Fastfile
AnalyzeRoot(parsed) ==
    [k \in 1..Len(parsed) |->
        [name |-> parsed[k].name,
         platform |-> parsed[k].platform,
         description |-> parsed[k].description,
         is_private |-> parsed[k].is_private]]

\* analyze_project from the loop over ["ios", "android"] to the return,
\* platforms and all_lanes being the two lists built so far
RECURSIVE AnalyzeLoop(_, _, _, _)
AnalyzeLoop(validated_path, todo, platforms, all_lanes) ==
    IF todo # <<>>
    THEN LET platform == Head(todo)
         IN  IF NestedFastfile(platform) \in fastfiles
             THEN AnalyzeLoop(validated_path, Tail(todo), Append(platforms, platform),
                      all_lanes \o AnalyzeNested(
                          parse_lanes_from_fastfile(file_text[NestedFastfile(platform)]),
                          platform))
             ELSE AnalyzeLoop(validated_path, Tail(todo), platforms, all_lanes)
    ELSE [project_path |-> validated_path,
          platforms |-> platforms,
          lanes |-> IF RootFastfile \in fastfiles
                    THEN all_lanes
                         \o AnalyzeRoot(parse_lanes_from_fastfile(file_text[RootFastfile]))
                    ELSE all_lanes,
          has_fastlane |-> Len(platforms) > 0 \/ RootFastfile \in fastfiles]

ListInit ==
    /\ content = <<>>
    /\ lanes = <<>>
    /\ current_platform = None
    /\ last_description = None
    /\ req \in ListRequests \cup AnalyzeRequests
    /\ file_text \in IF validate_project_path(req.project_path).ok
                     THEN UNION {[locs -> ListTexts] : locs \in SUBSET FastfileLocations}
                     ELSE {<<>>}
    /\ fastfiles = DOMAIN file_text
    /\ pc = req.op
    /\ ctx = NoContext
    /\ issues = <<>>
    /\ tool_idx = 1
    /\ calls = <<>>
    /\ procs = <<>>
    /\ read_text = NoText
    /\ preflight = NoResult
    /\ outcome = NoOutcome
    /\ environ = Environ
    /\ listed = <<>>
    /\ slots = <<>>
    /\ gathered = <<>>
    /\ parked = <<>>

\* a call of list_lanes ends with what, and the next call may follow
Listed(include_private, result) ==
    /\ listed' = Append(listed, [include_private |-> include_private, result |-> result])
    /\ outcome' = result
    /\ pc' = IF Len(listed) + 1 = MaxListCalls THEN "done" ELSE pc
    /\ UNCHANGED <<parseVars, environ, file_text, concVars>>
    /\ UNCHANGED <<req, fastfiles, ctx, issues, tool_idx, calls, procs, read_text, preflight>>

\* list_lanes: validate_project_path raises, re-raised as ToolError
ListLanesPathRejected ==
    /\ pc = "list_lanes"
    /\ ~validate_project_path(req.project_path).ok
    /\ \E include_private \in BOOLEAN :
           Listed(include_private,
                  ToolError([header |-> validate_project_path(req.project_path).error]))

\* list_lanes: the Fastfile of the requested platform does not exist
ListLanesNoFastfile ==
    /\ pc = "list_lanes"
    /\ validate_project_path(req.project_path).ok
    /\ MissingRequested(req.platform)
    /\ \E include_private \in BOOLEAN :
           Listed(include_private,
                  ToolError([header |-> "Fastfile not found at ",
                             path |-> validate_project_path(req.project_path).value
                                      \o NestedFastfile(req.platform)]))

\* list_lanes: every Fastfile that exists is read, parsed and listed
ListLanesReturned ==
    /\ pc = "list_lanes"
    /\ validate_project_path(req.project_path).ok
    /\ ~MissingRequested(req.platform)
    /\ \E include_private \in BOOLEAN :
           Listed(include_private,
                  Returned([project_path |-> validate_project_path(req.project_path).value,
                            platform_filter |-> req.platform,
                            lanes |-> LanesFound(DirsToCheck(req.platform),
                                                 include_private)]))

\* analyze_project: validate_project_path raises, re-raised as ToolError
AnalyzePathRejected ==
    /\ pc = "analyze_project"
    /\ ~validate_project_path(req.project_path).ok
    /\ outcome' = ToolError([header |-> validate_project_path(req.project_path).error])
    /\ pc' = "done"
    /\ UNCHANGED <<parseVars, environ, listVars, concVars>>
    /\ UNCHANGED <<req, fastfiles, ctx, issues, tool_idx, calls, procs, read_text, preflight>>

\* analyze_project: every Fastfile that exists is read and parsed
AnalyzeReturned ==
    /\ pc = "analyze_project"
    /\ validate_project_path(req.project_path).ok
    /\ outcome' = Returned(AnalyzeLoop(validate_project_path(req.project_path).value,
                                       <<IOS, ANDROID>>, <<>>, <<>>))
    /\ pc' = "done"
    /\ UNCHANGED <<parseVars, environ, listVars, concVars>>
    /\ UNCHANGED <<req, fastfiles, ctx, issues, tool_idx, calls, procs, read_text, preflight>>

ListNext ==
    \/ ListLanesPathRejected
    \/ ListLanesNoFastfile
    \/ ListLanesReturned
    \/ AnalyzePathRejected
    \/ AnalyzeReturned

ListSpec == ListInit /\ [][ListNext]_vars

(***************************************************************************)
(* Properties of the lane parser. The expected values are read off the     *)
(* lines of LineText by their ids, independently of the pattern matching.  *)
(***************************************************************************)
\* the lines of LineText that declare a lane and are not commented out
LaneDeclIds == {8, 9, 10}

DeclName == (8 :> <<"b">>) @@ (9 :> <<"_", "x">>) @@ (10 :> <<"h">>)

\* declared with private_lane / named with a leading underscore
PrivateFormIds == {10}

UnderscoreNameIds == {9}

\* the desc lines and their quoted text
DescIds == {6, 7}

DescBody == (6 :> <<"a", " ", "b">>) @@ (7 :> <<"c">>)

\* the lines that open a block, with the platform of a recognized platform block
OpenIds == {3, 4, 5, 8, 9, 10}

OpenPlatform == (3 :> IOS) @@ (4 :> ANDROID) @@ (5 :> None)
                @@ (8 :> None) @@ (9 :> None) @@ (10 :> None)

CloseIds == {11}

IsDecl(l) == l \in LaneDeclIds

\* the lane-declaration lines of the text, in order
Decls == SelectSeq(content, IsDecl)

\* position in content of the k-th lane-declaration line (0 for k = 0)
DeclPos(k) ==
    IF k = 0 THEN 0
    ELSE CHOOSE i \in 1..Len(content) :
            /\ content[i] \in LaneDeclIds
            /\ Cardinality({j \in 1..i : content[j] \in LaneDeclIds}) = k

\* the stack of open blocks after the first n lines, innermost last: the ids
\* of the block-opening lines not yet closed by an end line
RECURSIVE BlockStack(_)
BlockStack(n) ==
    IF n = 0 THEN <<>>
    ELSE LET st == BlockStack(n - 1)
             l == content[n]
         IN  IF l \in OpenIds THEN Append(st, l)
             ELSE IF l \in CloseIds /\ st # <<>> THEN SubSeq(st, 1, Len(st) - 1)
             ELSE st

\* the platform of the innermost recognized platform block open at line i
EnclosingPlatform(i) ==
    LET st == BlockStack(i - 1)
        open == {j \in 1..Len(st) : OpenPlatform[st[j]] # None}
    IN  IF open = {} THEN None
        ELSE OpenPlatform[st[CHOOSE j \in open : \A k \in open : k <= j]]

\* lines 1..n are laid out conventionally: a platform block opens at top
\* level only, a lane opens at top level or directly inside a platform block,
\* and an end line always closes an open block
ConventionalUpTo(n) ==
    \A i \in 1..n :
        LET st == BlockStack(i - 1)
        IN  /\ content[i] \in OpenIds \ LaneDeclIds => st = <<>>
            /\ content[i] \in LaneDeclIds =>
                   \/ st = <<>>
                   \/ Len(st) = 1 /\ st[1] \notin LaneDeclIds
            /\ content[i] \in CloseIds => st # <<>>

\* the text of the most recent desc line between the previous lane
\* declaration and the k-th one
PendingDesc(k) ==
    LET ds == {j \in (DeclPos(k - 1) + 1)..(DeclPos(k) - 1) : content[j] \in DescIds}
    IN  IF ds = {} THEN None
        ELSE DescBody[content[CHOOSE j \in ds : \A d \in ds : d <= j]]

\* C1 (as claimed): every lane declared inside a recognized platform block,
\* up to the end line that closes that block, has the platform of the block,
\* and every lane declared outside any platform block has platform None.
\* (Stated for conventionally laid-out text: platform blocks at top level,
\* lanes directly inside them or at top level, every end closing a block.)
C1_LanePlatformIsEnclosingBlock ==
    \A k \in 1..Len(lanes) :
        ConventionalUpTo(DeclPos(k)) =>
            lanes[k].platform = EnclosingPlatform(DeclPos(k))

\* C2: the parser returns exactly one record per lane-declaration line that
\* is not commented out, in the order of the lines; no such line, no record.
C2_OneRecordPerLaneLine ==
    /\ Len(lanes) = Len(Decls)
    /\ \A k \in 1..Len(lanes) : lanes[k].name = DeclName[Decls[k]]

C2_Witness ==
    /\ Len(lanes) = 2
    /\ lanes[1].name = <<"h">>
    /\ lanes[2].name = <<"b">>
    /\ \E i \in 1..Len(content) : content[i] = 2

\* C3: the description of a lane is the text of the most recent desc line
\* seen since the previous lane declaration (or the start of the text),
\* whatever other lines lie in between, and None when there is none; a desc
\* line never attaches to more than one lane.
C3_DescriptionIsMostRecentDesc ==
    /\ Len(lanes) = Len(Decls)
    /\ \A k \in 1..Len(lanes) : lanes[k].description = PendingDesc(k)

C3_Witness ==
    /\ Len(content) = 4
    /\ content[1] \in DescIds
    /\ content[2] \notin DescIds \cup LaneDeclIds
    /\ Len(lanes) = 2
    /\ lanes[1].description = DescBody[content[1]]
    /\ lanes[2].description = None

\* C4: a lane record is private iff it was declared with private_lane or its
\* name starts with an underscore.
C4_PrivateIffFormOrUnderscore ==
    /\ Len(lanes) = Len(Decls)
    /\ \A k \in 1..Len(lanes) :
          lanes[k].is_private = (Decls[k] \in PrivateFormIds \cup UnderscoreNameIds)

C4_Witness ==
    /\ Len(lanes) = 3
    /\ Decls = <<9, 8, 10>>
    /\ lanes[1].is_private
    /\ ~lanes[2].is_private
    /\ lanes[3].is_private

(***************************************************************************)
(* Properties of the pre-flight orchestrator and the build tools.          *)
(***************************************************************************)
ErrorCount(found) == Cardinality({i \in 1..Len(found) : found[i].level = "ERROR"})

WarningCount(found) == Cardinality({i \in 1..Len(found) : found[i].level = "WARNING"})

Called(fn) == \E i \in 1..Len(calls) : calls[i].fn = fn

Started(command) == \E i \in 1..Len(procs) : procs[i].command = command

\* the codes of a list of issues, in order
Codes(found) == [i \in 1..Len(found) |-> found[i].code]

\* the tools whose lookup exited non-zero, in the order of the lookups
RECURSIVE FailedLookups(_)
FailedLookups(ps) ==
    IF ps = <<>> THEN <<>>
    ELSE (IF Head(ps).command = "which" /\ Head(ps).result.exit_code # 0
          THEN <<Head(ps).args[1]>>
          ELSE <<>>)
         \o FailedLookups(Tail(ps))

\* the required names that are unset or empty in the environment, in order
RECURSIVE FlaggedVars(_)
FlaggedVars(names) ==
    IF names = <<>> THEN <<>>
    ELSE (IF Head(names) \in {"UNSET_VAR", "EMPTY_VAR"} THEN <<Head(names)>> ELSE <<>>)
         \o FlaggedVars(Tail(names))

\* the name an environment or tool issue is about
Subject(issue) == issue.message[2]

\* C5: run_preflight returns valid = true iff no returned issue has level
\* ERROR, however many WARNING issues there are.
C5_ValidIffNoError ==
    preflight.returned => (preflight.valid <=> ErrorCount(preflight.issues) = 0)

C5_Witness ==
    /\ preflight.returned
    /\ preflight.valid
    /\ WarningCount(preflight.issues) = 3
    /\ ErrorCount(preflight.issues) = 0

\* C6: in a build whose project path was validated, execute_fastlane is
\* called iff the pre-flight result holds no ERROR issue: an ERROR issue makes
\* the build raise 'Pre-flight checks failed' with the formatted list of all
\* issues and no fastlane process, warnings alone let the build proceed.
C6_FastlaneIffNoPreflightError ==
    (req.op \in BuildOps /\ preflight.returned) =>
        /\ Called("execute_fastlane") => ErrorCount(preflight.issues) = 0
        /\ pc = "done" => (Called("execute_fastlane") <=> ErrorCount(preflight.issues) = 0)
        /\ (pc = "done" /\ ErrorCount(preflight.issues) > 0) =>
               /\ outcome = ToolError([header |-> "Pre-flight checks failed:",
                                       body |-> FormatIssues(preflight.issues)])
               /\ Len(outcome.message.body) = 2 * Len(preflight.issues)
               /\ ~Started("fastlane")

C6_Witness ==
    /\ req.op \in BuildOps
    /\ pc = "done"
    /\ preflight.returned
    /\ Codes(preflight.issues) = <<"LANE_NOT_FOUND">>
    /\ preflight.issues[1].level = "WARNING"
    /\ Called("execute_fastlane")
    /\ Started("fastlane")

\* C7 (as claimed): a build request whose lane name the sanitizer rejects, or
\* whose project path is invalid, starts no external process at all: neither
\* a `which` lookup nor the fastlane command.
C7_InvalidInputStartsNoProcess ==
    (/\ req.op \in BuildOps
     /\ \/ ~sanitize_lane_name(req.lane).ok
        \/ ~validate_project_path(req.project_path).ok)
    => procs = <<>>

\* C8: the issues returned by run_preflight are the environment issues, then
\* the tool issues, then the project issues, each part in the order of its
\* input list; an ERROR of an earlier validator does not keep the later
\* validators from running.
C8_IssuesConcatenatedInOrder ==
    preflight.returned =>
        LET env == FlaggedVars(ctx.required_env_vars)
            tools == FailedLookups(procs)
            n == Len(env)
            m == Len(tools)
            project == IF ctx.project_path # NoPath /\ ctx.project_path # <<>>
                       THEN validate_project(ctx.project_path, ctx.platform, ctx.lane,
                                             read_text)
                       ELSE <<>>
            found == preflight.issues
        IN  /\ Len(found) = n + m + Len(project)
            /\ \A i \in 1..n :
                   /\ found[i].code \in {"ENV_MISSING", "ENV_EMPTY"}
                   /\ Subject(found[i]) = env[i]
            /\ \A i \in 1..m :
                   /\ found[n + i].code = "TOOL_MISSING"
                   /\ Subject(found[n + i]) = tools[i]
            /\ SubSeq(found, n + m + 1, Len(found)) = project
            /\ Cardinality({i \in 1..Len(procs) : procs[i].command = "which"})
                   = Len(ctx.required_tools)
            /\ \A i \in 1..Len(ctx.required_tools) :
                   procs[i].args = <<ctx.required_tools[i]>>

C8_Witness ==
    /\ preflight.returned
    /\ Codes(preflight.issues) =
           <<"ENV_MISSING", "ENV_EMPTY", "TOOL_MISSING", "TOOL_MISSING", "NO_FASTFILE">>
    /\ Subject(preflight.issues[3]) = "mytool"
    /\ Subject(preflight.issues[4]) = "fastlane"

\* C9: run_preflight calls the environment validator only when
\* required_env_vars is non-empty, the tool validator (and any `which`) only
\* when required_tools is non-empty, the project validator only when
\* project_path is set, with the context's platform and lane; a context with
\* all of them empty or unset returns valid with no issue and no process.
C9_ValidatorsOnlyWhenRequested ==
    /\ \A i \in 1..Len(calls) :
          /\ calls[i].fn = "validate_environment" =>
                 /\ ctx.required_env_vars # <<>>
                 /\ calls[i].args = <<ctx.required_env_vars>>
          /\ calls[i].fn = "validate_tools" => ctx.required_tools # <<>>
          /\ calls[i].fn = "validate_project" =>
                 /\ ctx.project_path # NoPath
                 /\ ctx.project_path # <<>>
                 /\ calls[i].args = <<ctx.project_path, ctx.platform, ctx.lane>>
    /\ Started("which") => (Called("validate_tools") /\ ctx.required_tools # <<>>)
    /\ (/\ preflight.returned
        /\ ctx.required_env_vars = <<>>
        /\ ctx.required_tools = <<>>
        /\ ctx.project_path = NoPath)
       => /\ preflight.valid
          /\ preflight.issues = <<>>
          /\ calls = <<>>
          /\ procs = <<>>

C9_Witness ==
    /\ req.op = "run_preflight"
    /\ pc = "done"
    /\ ctx.required_env_vars = <<>>
    /\ ctx.required_tools = <<>>
    /\ ctx.project_path = NoPath
    /\ outcome.kind = "returned"
    /\ outcome.value.valid
    /\ outcome.value.issues = <<>>
    /\ procs = <<>>

\* C10 (as claimed): when fastlane exits non-zero the build raises a
\* ToolError whose diagnosis is the match of the combined stdout and stderr
\* against the pattern table, so a signature in either stream is diagnosed.
C10_DiagnosisOfCombinedOutput ==
    (/\ pc = "done"
     /\ Started("fastlane")
     /\ procs[Len(procs)].result.exit_code # 0)
    => /\ outcome.kind = "raised"
       /\ outcome.type = "ToolError"
       /\ outcome.message.diagnosis =
              diagnose_error(procs[Len(procs)].result.stdout
                             \o procs[Len(procs)].result.stderr)

(***************************************************************************)
(* Properties of execute_command and of the three validators.              *)
(***************************************************************************)
\* C11: a process still running when the timeout expires is killed and
\* reaped, and execute_command returns stdout empty, a 'timed out' stderr
\* and exit code 124 instead of raising; the callers treat that like any
\* non-zero exit: a timed-out `which` gives a TOOL_MISSING error for its
\* tool, a timed-out fastlane run makes the build raise a diagnosed ToolError.
C11_TimeoutIsExit124 ==
    /\ \A i \in 1..Len(procs) :
          procs[i].killed =>
              /\ procs[i].result.done
              /\ procs[i].result.stdout = <<>>
              /\ InSeq("timed out", procs[i].result.stderr)
              /\ procs[i].result.exit_code = 124
              /\ procs[i].command = "which" =>
                     \E k \in 1..Len(issues) :
                         /\ issues[k].level = "ERROR"
                         /\ issues[k].code = "TOOL_MISSING"
                         /\ Subject(issues[k]) = procs[i].args[1]
              /\ (procs[i].command = "fastlane" /\ pc = "done") =>
                     /\ outcome.kind = "raised"
                     /\ outcome.type = "ToolError"
                     /\ outcome.message.header = "Operation timed out"
                     /\ outcome.message.diagnosis.matched
                     /\ outcome.message.stderr = procs[i].result.stderr
    /\ outcome.kind = "raised" =>
           outcome.type \in {"ToolError", "ValidationError", "ValueError"}

C11_Witness ==
    /\ req.op \in BuildOps
    /\ pc = "done"
    /\ Len(procs) = 2
    /\ procs[1].command = "which"
    /\ ~procs[1].killed
    /\ procs[2].command = "fastlane"
    /\ procs[2].killed
    /\ procs[2].result.exit_code = 124
    /\ outcome.kind = "raised"
    /\ outcome.message.header = "Operation timed out"

\* the issues of a list whose code is one of the given codes, in order
WithCode(found, codes) ==
    SelectSeq(found, LAMBDA issue : issue.code \in codes)

\* C12: validate_environment reports each occurrence of a required name at
\* most once and in input order: an unset variable as one ERROR ENV_MISSING,
\* a variable set to the empty string as one WARNING ENV_EMPTY, a variable
\* with a value not at all; os.environ is left as it was.
C12_OneEnvironmentIssuePerName ==
    /\ environ = Environ
    /\ LET names == IF Called("validate_environment")
                    THEN ctx.required_env_vars
                    ELSE <<>>
           flagged == FlaggedVars(names)
           found == WithCode(issues, {"ENV_MISSING", "ENV_EMPTY"})
       IN  /\ Len(found) = Len(flagged)
           /\ found = SubSeq(issues, 1, Len(found))
           /\ \A i \in 1..Len(found) :
                  /\ Subject(found[i]) = flagged[i]
                  /\ flagged[i] = "UNSET_VAR" =>
                         found[i].level = "ERROR" /\ found[i].code = "ENV_MISSING"
                  /\ flagged[i] = "EMPTY_VAR" =>
                         found[i].level = "WARNING" /\ found[i].code = "ENV_EMPTY"

C12_Witness ==
    /\ Called("validate_environment")
    /\ ctx.required_env_vars = <<"SET_VAR", "UNSET_VAR">>
    /\ preflight.returned
    /\ Codes(WithCode(preflight.issues, {"ENV_MISSING", "ENV_EMPTY"})) = <<"ENV_MISSING">>
    /\ Subject(preflight.issues[1]) = "UNSET_VAR"

\* the `which` lookups made so far, in order
Lookups == SelectSeq(procs, LAMBDA proc : proc.command = "which")

\* the suggestion expected for a missing tool
ExpectedHint(tool) ==
    CASE tool = "fastlane" ->
             <<"Install with: gem install fastlane OR brew install fastlane">>
      [] tool = "xcodebuild" -> <<"Install Xcode from the App Store">>
      [] OTHER -> <<"Install ", tool, " and ensure it's in your PATH">>

\* C13: validate_tools looks up the required tools one by one in input order
\* with `which <tool>`, and reports exactly the lookups that exit non-zero, in
\* that order, each as one ERROR TOOL_MISSING naming the tool and carrying the
\* tool's install hint, or the generic hint for a tool without one.
C13_OneLookupAndIssuePerTool ==
    LET failed == FailedLookups(procs)
        found == WithCode(issues, {"TOOL_MISSING"})
    IN  /\ Lookups # <<>> =>
               /\ Len(Lookups) <= Len(ctx.required_tools)
               /\ \A i \in 1..Len(Lookups) : Lookups[i].args = <<ctx.required_tools[i]>>
        /\ preflight.returned => Len(Lookups) = Len(ctx.required_tools)
        /\ Len(found) = Len(failed)
        /\ \A i \in 1..Len(found) :
               /\ found[i].level = "ERROR"
               /\ found[i].message = <<"Required tool not found: ", failed[i]>>
               /\ found[i].suggestion = ExpectedHint(failed[i])

C13_Witness ==
    /\ preflight.returned
    /\ ctx.required_tools = <<"fastlane", "mytool">>
    /\ Len(procs) = 2
    /\ procs[1].result.exit_code = 0
    /\ procs[2].result.exit_code = 1
    /\ Codes(preflight.issues) = <<"TOOL_MISSING">>
    /\ preflight.issues[1].suggestion = <<"Install ", "mytool", " and ensure it's in your PATH">>

\* a platform was passed to validate_project
PlatformGiven == ctx.platform # None /\ ctx.platform # <<>>

\* a Fastfile exists at a location validate_project looks at
NestedFound == PlatformGiven /\ NestedFastfile(ctx.platform) \in fastfiles

RootFound == RootFastfile \in fastfiles

\* the issues validate_project returned
ProjectIssues == WithCode(issues, {"NO_FASTFILE", "LANE_NOT_FOUND"})

\* C14: with no Fastfile at any location it looks at, validate_project
\* returns exactly one issue, an ERROR NO_FASTFILE whose message names the
\* platform-nested and the root path when a platform was given and the root
\* path alone otherwise; it reads no file and checks no lane, so NO_FASTFILE
\* and LANE_NOT_FOUND never come together.
C14_NoFastfileIsOneError ==
    /\ ~Called("validate_project") => ProjectIssues = <<>>
    /\ (Called("validate_project") /\ ~NestedFound /\ ~RootFound) =>
           /\ Len(ProjectIssues) = 1
           /\ ProjectIssues[1].level = "ERROR"
           /\ ProjectIssues[1].code = "NO_FASTFILE"
           /\ ProjectIssues[1].message =
                  IF PlatformGiven
                  THEN <<"Fastfile not found at ",
                         ctx.project_path \o <<ctx.platform, FASTLANE_DIR, FASTFILE>>,
                         " or ",
                         ctx.project_path \o <<FASTLANE_DIR, FASTFILE>> >>
                  ELSE <<"Fastfile not found at ",
                         ctx.project_path \o <<FASTLANE_DIR, FASTFILE>> >>
           /\ read_text = NoText
    /\ (Called("validate_project") /\ (NestedFound \/ RootFound)) =>
           WithCode(issues, {"NO_FASTFILE"}) = <<>>

C14_Witness ==
    /\ Called("validate_project")
    /\ ctx.platform = None
    /\ ctx.lane = <<"b">>
    /\ fastfiles = {NestedFastfile(IOS), NestedFastfile(ANDROID)}
    /\ Codes(issues) = <<"NO_FASTFILE">>
    /\ Len(issues[1].message) = 2

\* the lane names a line of LineText declares or mentions after `lane :` or
\* `private_lane :` (line 2 is a comment that mentions one)
MentionedLane == (2 :> <<"b">>) @@ (8 :> <<"b">>) @@ (9 :> <<"_", "x">>) @@ (10 :> <<"h">>)

\* the text read holds `lane :<name>` or `private_lane :<name>`
Mentions(text, name) ==
    \E i \in 1..Len(text) : text[i] \in DOMAIN MentionedLane /\ MentionedLane[text[i]] = name

LaneGiven == ctx.lane # None /\ ctx.lane # <<>>

\* C15: with a Fastfile found and a lane name given, validate_project returns
\* one WARNING LANE_NOT_FOUND when the text read holds neither `lane :<name>`
\* nor `private_lane :<name>`, and nothing when it holds one of them; the issue
\* is never an ERROR, so alone it leaves the pre-flight result valid.
C15_MissingLaneIsOneWarning ==
    /\ (Called("validate_project") /\ (NestedFound \/ RootFound)) =>
           IF LaneGiven
           THEN /\ read_text \in FastfileTexts
                /\ Mentions(read_text, ctx.lane) => ProjectIssues = <<>>
                /\ ~Mentions(read_text, ctx.lane) =>
                       /\ Len(ProjectIssues) = 1
                       /\ ProjectIssues[1].level = "WARNING"
                       /\ ProjectIssues[1].code = "LANE_NOT_FOUND"
                       /\ ProjectIssues[1].message =
                              <<"Lane '", ctx.lane, "' not found in Fastfile">>
           ELSE ProjectIssues = <<>> /\ read_text = NoText
    /\ \A i \in 1..Len(issues) :
           issues[i].code = "LANE_NOT_FOUND" => issues[i].level = "WARNING"
    /\ (preflight.returned /\ Codes(preflight.issues) = <<"LANE_NOT_FOUND">>) =>
           preflight.valid

C15_Witness ==
    /\ req.op = "run_preflight"
    /\ preflight.returned
    /\ ctx.lane = <<"b">>
    /\ read_text = <<10, 11>>
    /\ Codes(preflight.issues) = <<"LANE_NOT_FOUND">>
    /\ preflight.issues[1].level = "WARNING"
    /\ preflight.valid

(***************************************************************************)
(* Properties of the path helpers and the sanitizers, called directly.     *)
(***************************************************************************)
\* the call of the helper has returned or raised
CallDone(op) == req.op = op /\ pc = "done"

\* C16: find_fastlane_dir returns <project>/<platform>/fastlane when a
\* platform is given and that directory holds a Fastfile, otherwise
\* <project>/fastlane when that one holds a Fastfile, otherwise None; with no
\* platform it never returns a platform-nested directory.
C16_FastlaneDirNestedThenRoot ==
    CallDone("find_fastlane_dir") =>
        LET given == req.platform # None /\ req.platform # <<>>
            nested == given /\ <<req.platform, FASTLANE_DIR, FASTFILE>> \in fastfiles
            root == <<FASTLANE_DIR, FASTFILE>> \in fastfiles
        IN  /\ outcome.kind = "returned"
            /\ nested => outcome.value = req.project_path \o <<req.platform, FASTLANE_DIR>>
            /\ (~nested /\ root) => outcome.value = req.project_path \o <<FASTLANE_DIR>>
            /\ (~nested /\ ~root) => outcome.value = NoPath
            /\ ~given => outcome.value \in {req.project_path \o <<FASTLANE_DIR>>, NoPath}

C16_Witness ==
    /\ CallDone("find_fastlane_dir")
    /\ req.platform = IOS
    /\ fastfiles = {NestedFastfile(IOS), RootFastfile}
    /\ outcome.value = Cwd \o <<PROJECT_P, IOS, FASTLANE_DIR>>

NameStart == {"a", "Z"}

NameRest == {"a", "Z", "1", "_", "-"}

\* s[i..j] is a well-formed lane name with nothing but blanks around it
IsNameAt(s, i, j) ==
    /\ \A k \in 1..(i - 1) : s[k] = " "
    /\ \A k \in (j + 1)..Len(s) : s[k] = " "
    /\ s[i] \in NameStart
    /\ \A k \in (i + 1)..j : s[k] \in NameRest

\* C18: sanitize_lane_name returns the text with the surrounding whitespace
\* removed exactly when what remains is a letter followed by letters, digits,
\* underscores and hyphens; for every other argument (None, empty, blank, a
\* shell metacharacter inside, a digit first) it raises ValidationError and
\* returns nothing.
C18_LaneNameReturnedIffWellFormed ==
    CallDone("sanitize_lane_name") =>
        LET s == req.lane
            spans == IF s = None THEN {}
                     ELSE {ij \in (1..Len(s)) \X (1..Len(s)) :
                              ij[1] <= ij[2] /\ IsNameAt(s, ij[1], ij[2])}
        IN  /\ spans # {} =>
                   \E ij \in spans : outcome = Returned(SubSeq(s, ij[1], ij[2]))
            /\ spans = {} =>
                   outcome.kind = "raised" /\ outcome.type = "ValidationError"

C18_Witness ==
    /\ CallDone("sanitize_lane_name")
    /\ req.lane = <<" ", "Z", "1">>
    /\ outcome = Returned(<<"Z", "1">>)

\* `..` is a whole /-separated segment of the path
HasDotDotSegment(s) ==
    \E i \in 1..(Len(s) - 1) :
        /\ s[i] = "." /\ s[i + 1] = "."
        /\ i = 1 \/ s[i - 1] = "/"
        /\ i + 1 = Len(s) \/ s[i + 2] = "/"

\* C19: validate_project_path raises the traversal error for every path with
\* `..` as a whole segment, whether what it points at exists or not, and for
\* no other path; a path with `..` inside a segment name is accepted when it
\* is an existing directory.
C19_TraversalIffDotDotSegment ==
    (CallDone("validate_project_path") /\ req.path # None /\ req.path # <<>>) =>
        /\ HasDotDotSegment(req.path) <=>
               outcome = ValidationError("Path contains suspicious traversal")
        /\ req.path = PROJECT_DOTS => outcome = Returned(Cwd \o <<PROJECT_DOTS>>)

C19_Witness ==
    /\ CallDone("validate_project_path")
    /\ req.path = <<"p", "/", ".", ".">>
    /\ PathIsDir(Resolve(req.path))
    /\ outcome = ValidationError("Path contains suspicious traversal")

(***************************************************************************)
(* Properties of list_lanes.                                               *)
(***************************************************************************)
\* the loop of the parser run as a whole gives what its steps give one by one
ParseLoopAgreesWithSteps == lanes = parse_lanes_from_fastfile(content)

\* the lines of a text that declare a lane, private ones left out or not
RECURSIVE DeclaredIn(_, _)
DeclaredIn(text, with_private) ==
    IF text = <<>> THEN <<>>
    ELSE (IF /\ Head(text) \in LaneDeclIds
             /\ with_private \/ Head(text) \notin PrivateFormIds \cup UnderscoreNameIds
          THEN <<Head(text)>>
          ELSE <<>>)
         \o DeclaredIn(Tail(text), with_private)

\* the lane-declaration lines of the Fastfiles a call looks at, in the order
\* it looks at them
DeclaredInProject(with_private) ==
    LET at(loc) == IF loc \in DOMAIN file_text
                   THEN DeclaredIn(file_text[loc], with_private)
                   ELSE <<>>
    IN  IF req.platform # None
        THEN at(NestedFastfile(req.platform))
        ELSE at(NestedFastfile(IOS)) \o at(NestedFastfile(ANDROID)) \o at(RootFastfile)

IsPublic(entry) == ~entry.is_private

\* C20: a list_lanes call with include_private = false returns no private
\* lane (declared with private_lane or named with a leading underscore); a
\* call with include_private = true returns every lane declared; the public
\* lanes are the same, in the same order, in both.
C20_PrivateLanesFilteredAndRestored ==
    /\ \A i \in 1..Len(listed) :
           listed[i].result.kind = "returned" =>
               LET found == listed[i].result.value.lanes
                   decls == DeclaredInProject(listed[i].include_private)
               IN  /\ Len(found) = Len(decls)
                   /\ \A k \in 1..Len(found) :
                          /\ found[k].name = DeclName[decls[k]]
                          /\ found[k].is_private =
                                 (decls[k] \in PrivateFormIds \cup UnderscoreNameIds)
                   /\ ~listed[i].include_private =>
                          \A k \in 1..Len(found) : ~found[k].is_private
    /\ \A i, j \in 1..Len(listed) :
           (~listed[i].include_private /\ listed[j].include_private) =>
               /\ listed[i].result.kind = listed[j].result.kind
               /\ listed[i].result.kind = "returned" =>
                      listed[i].result.value.lanes =
                          SelectSeq(listed[j].result.value.lanes, IsPublic)

C20_Witness ==
    /\ Len(listed) = 2
    /\ ~listed[1].include_private
    /\ listed[2].include_private
    /\ req.platform = None
    /\ listed[1].result.kind = "returned"
    /\ Len(listed[1].result.value.lanes) = 2
    /\ Len(listed[2].result.value.lanes) = 5
    /\ listed[2].result.value.lanes[2].is_private

(***************************************************************************)
(* Properties of analyze_project.                                          *)
(***************************************************************************)
\* what the parser gives for the Fastfile at a location, nothing when the
\* file does not exist
ParsedAt(loc) ==
    IF loc \in DOMAIN file_text THEN parse_lanes_from_fastfile(file_text[loc]) ELSE <<>>

\* C21: analyze_project lists a platform exactly when the platform-nested
\* Fastfile exists, and lists the lanes the parser gives for the ios, the
\* android and the root Fastfile, in that order, with name, description and
\* privacy as parsed; a lane of a nested Fastfile the parser gave no platform
\* gets the platform of the directory, a lane of the root Fastfile keeps the
\* parser's platform, absent or not.
C21_AnalyzeReportsPlatformsAndLanes ==
    (req.op = "analyze_project" /\ pc = "done" /\ outcome.kind = "returned") =>
        LET got == outcome.value
            ios == ParsedAt(<<IOS, FASTLANE_DIR, FASTFILE>>)
            android == ParsedAt(<<ANDROID, FASTLANE_DIR, FASTFILE>>)
            root == ParsedAt(<<FASTLANE_DIR, FASTFILE>>)
            parsed == ios \o android \o root
            dir(k) == IF k <= Len(ios) THEN IOS
                      ELSE IF k <= Len(ios) + Len(android) THEN ANDROID
                      ELSE None
        IN  /\ \A pl \in {IOS, ANDROID} :
                   InSeq(pl, got.platforms) <=>
                       <<pl, FASTLANE_DIR, FASTFILE>> \in DOMAIN file_text
            /\ Len(got.platforms) =
                   Cardinality({pl \in {IOS, ANDROID} : InSeq(pl, got.platforms)})
            /\ Len(got.lanes) = Len(parsed)
            /\ \A k \in 1..Len(parsed) :
                   /\ got.lanes[k].name = parsed[k].name
                   /\ got.lanes[k].description = parsed[k].description
                   /\ got.lanes[k].is_private = parsed[k].is_private
                   /\ got.lanes[k].platform =
                          IF parsed[k].platform = None THEN dir(k) ELSE parsed[k].platform

C21_Witness ==
    /\ req.op = "analyze_project"
    /\ pc = "done"
    /\ DOMAIN file_text = {NestedFastfile(ANDROID), RootFastfile}
    /\ file_text[NestedFastfile(ANDROID)] = <<3, 8, 11, 10>>
    /\ file_text[RootFastfile] = <<9, 6, 8>>
    /\ outcome.kind = "returned"
    /\ outcome.value.platforms = <<ANDROID>>
    /\ Len(outcome.value.lanes) = 4
    /\ outcome.value.lanes[1].platform = IOS
    /\ outcome.value.lanes[2].platform = ANDROID
    /\ outcome.value.lanes[3].platform = None
    /\ outcome.value.lanes[4].description = <<"a", " ", "b">>

(***************************************************************************)
(* Properties of a whole build request.                                    *)
(***************************************************************************)
\* C22 (as claimed): whatever makes build_ios / build_android fail (the
\* project path, the lane name, a pre-flight ERROR, a non-zero exit of the
\* fastlane command), the caller gets a ToolError and no other exception.
C22_BuildFailuresAreToolErrors ==
    (req.op \in BuildOps /\ pc = "done" /\ outcome.kind = "raised") =>
        outcome.type = "ToolError"

\* a well-formed lane name: a letter, then letters, digits, `_` and `-`
WellFormedName(s) ==
    /\ s # <<>>
    /\ s[1] \in Letters
    /\ \A k \in 1..Len(s) :
           s[k] \in Letters \cup {"0", "1", "2", "3", "4", "5", "6", "7", "8", "9", "_", "-"}

\* C27: every fastlane process is started with exactly one argument, a
\* well-formed lane name (the lane of the request without its surrounding
\* whitespace), by an execute_fastlane call for platform ios or android.
C27_FastlaneGetsSanitizedLane ==
    /\ \A i \in 1..Len(procs) :
           procs[i].command = "fastlane" =>
               /\ Len(procs[i].args) = 1
               /\ WellFormedName(procs[i].args[1])
               /\ \E a, b \in 0..Len(req.lane) :
                      /\ req.lane = [k \in 1..a |-> " "] \o procs[i].args[1]
                                    \o [k \in 1..b |-> " "]
               /\ Called("execute_fastlane")
    /\ \A i \in 1..Len(calls) :
           (calls[i].fn = "execute_fastlane" /\ Started("fastlane")) =>
               calls[i].args[2] \in {<<"i", "o", "s">>, <<"a", "n", "d", "r", "o", "i", "d">>}

C27_Witness ==
    /\ req.op \in BuildOps
    /\ req.lane = <<" ", "b", " ">>
    /\ Started("fastlane")
    /\ procs[Len(procs)].args = << <<"b">> >>

\* position of the first call of fn in calls, 0 when there is none
FirstCall(fn) ==
    IF Called(fn) THEN CHOOSE i \in 1..Len(calls) :
                           calls[i].fn = fn /\ \A j \in 1..(i - 1) : calls[j].fn # fn
    ELSE 0

\* C28: a build returns {success: true} only after the project path was
\* validated, pre-flight returned valid, the fastlane command was started
\* after the lookups and exited with code 0; the output returned is the
\* stdout of that run; every other finished build raised and returned nothing.
C28_SuccessOnlyAfterFullSequence ==
    (req.op \in BuildOps /\ pc = "done") =>
        /\ outcome.kind \in {"returned", "raised"}
        /\ outcome.kind = "returned" <=>
               /\ validate_project_path(req.project_path).ok
               /\ preflight.returned
               /\ ErrorCount(preflight.issues) = 0
               /\ Started("fastlane")
               /\ procs[Len(procs)].result.exit_code = 0
        /\ outcome.kind = "returned" =>
               /\ outcome.value = [success |-> TRUE,
                                   output |-> procs[Len(procs)].result.stdout]
               /\ \A i \in 1..(Len(procs) - 1) : procs[i].command = "which"
               /\ procs[Len(procs)].command = "fastlane"
               /\ FirstCall("validate_tools") < FirstCall("validate_project")
               /\ FirstCall("validate_project") < FirstCall("execute_fastlane")
               /\ FirstCall("execute_fastlane") = Len(calls)

C28_Witness ==
    /\ req.op = "build_android"
    /\ pc = "done"
    /\ outcome = [kind |-> "returned",
                  value |-> [success |-> TRUE, output |-> <<"Installing">>]]
    /\ Len(procs) = 2

\* C29: in a build, for every combination of Fastfiles, a directory found by
\* find_fastlane_dir(project, platform) is the fastlane directory of
\* find_execution_dir(project, platform); so when the project check found a
\* Fastfile, the directory fastlane is started in holds fastlane/Fastfile.
C29_ExecutionDirHoldsTheFastfileFound ==
    (req.op \in BuildOps /\ ctx.built) =>
        LET found == find_fastlane_dir(ctx.project_path, ctx.platform)
        IN  /\ found # NoPath =>
                   found = find_execution_dir(ctx.project_path, ctx.platform)
                           \o <<FASTLANE_DIR>>
            /\ \A i \in 1..Len(procs) :
                   procs[i].command = "fastlane" =>
                       /\ found # NoPath
                       /\ \E rel \in fastfiles :
                              procs[i].cwd \o <<FASTLANE_DIR, FASTFILE>>
                                  = ctx.project_path \o rel

C29_Witness ==
    /\ req.op = "build_ios"
    /\ fastfiles = {NestedFastfile(IOS), RootFastfile}
    /\ Started("fastlane")
    /\ procs[Len(procs)].cwd = Cwd \o <<PROJECT_P, IOS>>

(***************************************************************************)
(* Lines the parser looks through.                                         *)
(***************************************************************************)
\* the lines of LineText that are blank, a comment, the opening of a
\* platform other than ios and android, or of no recognized form
TransparentIds == {1, 2, 5, 12}

Opaque(l) == l \notin TransparentIds

\* C23: a blank line, a comment, a `platform :<other> do` line and a line of
\* no recognized form change neither current_platform nor the pending
\* description and add no lane: the parser's state after a text is its state
\* after the same text with every such line removed.
C23_TransparentLinesChangeNothing ==
    LET st == ParseLoop([lanes |-> <<>>, current_platform |-> None,
                         last_description |-> None],
                        SelectSeq(content, Opaque))
    IN  /\ lanes = st.lanes
        /\ current_platform = st.current_platform
        /\ last_description = st.last_description

C23_Witness ==
    /\ content = <<3, 6, 5, 8>>
    /\ Len(lanes) = 1
    /\ lanes[1].platform = IOS
    /\ lanes[1].description = <<"a", " ", "b">>

(***************************************************************************)
(* No retries.                                                             *)
(***************************************************************************)
FastlaneRuns(ps) == {i \in 1..Len(ps) : ps[i].command = "fastlane"}

\* C24: no external command is retried within a request. Each step starts at
\* most one process and leaves the finished ones as they are, whatever their
\* exit code and whether or not they timed out; a lookup started is the one of
\* the next entry of the required tools, so there is one lookup per entry;
\* fastlane is started at most once; an outcome reported is never replaced.
C24_NoRetry ==
    [][/\ Len(procs') \in {Len(procs), Len(procs) + 1}
       /\ \A i \in 1..Len(procs) :
              /\ procs'[i].command = procs[i].command
              /\ procs'[i].args = procs[i].args
              /\ procs[i].result.done => procs'[i] = procs[i]
       /\ Cardinality(FastlaneRuns(procs')) <= 1
       /\ (Len(procs') > Len(procs) /\ procs'[Len(procs')].command = "which") =>
              /\ Len(procs') <= Len(ctx.required_tools)
              /\ procs'[Len(procs')].args = <<ctx.required_tools[Len(procs')]>>
       /\ preflight'.returned =>
              Len(SelectSeq(procs', LAMBDA proc : proc.command = "which"))
                  = Len(ctx'.required_tools)
       /\ outcome # NoOutcome => outcome' = outcome]_vars

C24_Witness ==
    /\ req.op = "build_ios"
    /\ pc = "done"
    /\ Len(procs) = 3
    /\ procs[3].command = "fastlane"
    /\ procs[3].killed
    /\ procs[3].result.exit_code = 124
    /\ outcome.kind = "raised"

(***************************************************************************)
(* The platform filter of list_lanes.                                      *)
(***************************************************************************)
\* C30 (as claimed): a list_lanes call with a platform filter P reports every
\* lane it returns with platform P, and raises 'Fastfile not found' when
\* <project>/<P>/fastlane/Fastfile is missing; a call without a filter skips
\* the Fastfiles that are missing and returns.
C30_FilteredLanesCarryTheFilter ==
    (req.op = "list_lanes" /\ validate_project_path(req.project_path).ok) =>
        \A i \in 1..Len(listed) :
            LET result == listed[i].result
            IN  IF req.platform = None
                THEN result.kind = "returned"
                ELSE IF NestedFastfile(req.platform) \notin fastfiles
                THEN /\ result.kind = "raised"
                     /\ result.type = "ToolError"
                     /\ result.message.header = "Fastfile not found at "
                ELSE /\ result.kind = "returned"
                     /\ \A k \in 1..Len(result.value.lanes) :
                            result.value.lanes[k].platform = req.platform

(***************************************************************************)
(* The tool lookups, sequential and dispatched concurrently.               *)
(*                                                                         *)
(* A run_preflight request that only names required tools runs the loop of *)
(* validate_tools; then the same lookups are dispatched all at once, each   *)
(* completes with the result the lookup of that entry had, in any order,    *)
(* and the issues are collected in input order.                             *)
(***************************************************************************)
MaxGatherTools == 3

GatherRequests ==
    {[op |-> "run_preflight", ctx |-> PreflightContext(NoPath, None, None, <<>>, tl)] :
        tl \in SeqsUpTo(ToolNames, MaxGatherTools)}

GatherInit ==
    /\ content = <<>>
    /\ lanes = <<>>
    /\ current_platform = None
    /\ last_description = None
    /\ req \in GatherRequests
    /\ fastfiles = {}
    /\ pc = "run_preflight"
    /\ ctx = req.ctx
    /\ issues = <<>>
    /\ tool_idx = 1
    /\ calls = <<>>
    /\ procs = <<>>
    /\ read_text = NoText
    /\ preflight = NoResult
    /\ outcome = NoOutcome
    /\ environ = Environ
    /\ file_text = <<>>
    /\ listed = <<>>
    /\ slots = <<>>
    /\ gathered = <<>>
    /\ parked = <<>>

\* every lookup is started before any result is awaited
GatherDispatch ==
    /\ pc = "validate_project"
    /\ slots' = [i \in 1..Len(ctx.required_tools) |->
                    [proc |-> Process("which", <<ctx.required_tools[i]>>, NoPath, None,
                                      Running),
                     at |-> 0]]
    /\ pc' = "gather"
    /\ UNCHANGED <<parseVars, environ, listVars, gathered, parked>>
    /\ UNCHANGED <<req, fastfiles, ctx, issues, tool_idx, calls, procs, read_text,
                   preflight, outcome>>

Completed == {i \in 1..Len(slots) : slots[i].at > 0}

\* the lookup of entry i completes, as the lookup of that entry did in the loop
GatherComplete(i) ==
    /\ pc = "gather"
    /\ i \in 1..Len(slots)
    /\ slots[i].at = 0
    /\ \E c \in WhichCompletions :
           /\ Communicate(slots[i].proc, DEFAULT_TIMEOUT, c) = procs[i]
           /\ slots' = [slots EXCEPT ![i] = [proc |-> procs[i],
                                             at |-> Cardinality(Completed) + 1]]
    /\ UNCHANGED <<parseVars, environ, listVars, gathered, parked>>
    /\ UNCHANGED <<req, fastfiles, pc, ctx, issues, tool_idx, calls, procs, read_text,
                   preflight, outcome>>

\* the issues of the completed lookups ss, in the order of ss
RECURSIVE CollectIssues(_)
CollectIssues(ss) ==
    IF ss = <<>> THEN <<>>
    ELSE (IF Head(ss).proc.result.exit_code # 0
          THEN <<ToolMissing(Head(ss).proc.args[1])>>
          ELSE <<>>)
         \o CollectIssues(Tail(ss))

\* every lookup has completed: the results are collected in input order
GatherCollect ==
    /\ pc = "gather"
    /\ Completed = 1..Len(slots)
    /\ gathered' = CollectIssues(slots)
    /\ pc' = "gathered"
    /\ UNCHANGED <<parseVars, environ, listVars, slots, parked>>
    /\ UNCHANGED <<req, fastfiles, ctx, issues, tool_idx, calls, procs, read_text,
                   preflight, outcome>>

GatherNext ==
    \/ PreflightEnvironment
    \/ ToolLookup
    \/ GatherDispatch
    \/ \E i \in 1..MaxGatherTools : GatherComplete(i)
    \/ GatherCollect

GatherSpec == GatherInit /\ [][GatherNext]_vars

\* C25: the issue list of validate_tools depends only on the result of each
\* entry's lookup and on the input order: dispatching all lookups at once,
\* letting them complete in any order and collecting in input order gives the
\* issue list of the sequential loop, for every list of tools and every
\* result of every lookup.
C25_ConcurrentLookupsGiveSameIssues ==
    pc = "gathered" => gathered = issues

C25_Witness ==
    /\ pc = "gathered"
    /\ Len(slots) = 3
    /\ slots[3].at = 1
    /\ slots[1].at = 3
    /\ slots[1].proc.result.exit_code = 1
    /\ slots[2].proc.result.exit_code = 0
    /\ slots[3].proc.killed
    /\ slots[1].proc.args # slots[3].proc.args
    /\ Len(gathered) = 2

(***************************************************************************)
(* Two requests served by one event loop.                                  *)
(*                                                                         *)
(* The request variables hold the locals of the coroutine that is running;  *)
(* parked holds the locals of a coroutine suspended at an await. The        *)
(* filesystem and os.environ are the only state the two share.              *)
(***************************************************************************)
ConcRequests ==
    {[op |-> "build_ios", project_path |-> PROJECT_P, lane |-> <<" ", "b", " ">>,
      environment |-> <<"r">>],
     [op |-> "build_android", project_path |-> PROJECT_P, lane |-> <<"b", ";", "x">>,
      environment |-> None],
     [op |-> "build_android", project_path |-> <<>>, lane |-> <<"b">>,
      environment |-> None],
     [op |-> "run_preflight",
      ctx |-> PreflightContext(Cwd \o <<PROJECT_P>>, IOS, <<"b">>,
                               <<"UNSET_VAR", "SET_VAR">>, <<"mytool", "fastlane">>)]}

ConcFastfiles == {{NestedFastfile(IOS), RootFastfile}}

\* the locals of a request that has not started
Arrived(r) ==
    [req |-> r,
     pc |-> IF r.op \in BuildOps THEN "validate_project_path" ELSE "run_preflight",
     ctx |-> IF r.op \in BuildOps THEN NoContext ELSE r.ctx,
     issues |-> <<>>, tool_idx |-> 1, calls |-> <<>>, procs |-> <<>>,
     read_text |-> NoText, preflight |-> NoResult, outcome |-> NoOutcome,
     overlapped |-> FALSE]

\* the locals of the running request; overlapped is carried by parked alone
Locals ==
    [req |-> req, pc |-> pc, ctx |-> ctx, issues |-> issues, tool_idx |-> tool_idx,
     calls |-> calls, procs |-> procs, read_text |-> read_text,
     preflight |-> preflight, outcome |-> outcome, overlapped |-> FALSE]

ConcInit ==
    /\ content = <<>>
    /\ lanes = <<>>
    /\ current_platform = None
    /\ last_description = None
    /\ req \in ConcRequests
    /\ fastfiles \in ConcFastfiles
    /\ pc = Arrived(req).pc
    /\ ctx = Arrived(req).ctx
    /\ issues = <<>>
    /\ tool_idx = 1
    /\ calls = <<>>
    /\ procs = <<>>
    /\ read_text = NoText
    /\ preflight = NoResult
    /\ outcome = NoOutcome
    /\ environ = Environ
    /\ file_text = <<>>
    /\ listed = <<>>
    /\ slots = <<>>
    /\ gathered = <<>>
    /\ parked \in {<<>>} \cup {<<Arrived(r)>> : r \in ConcRequests}

\* the request has made its first step and has not returned or raised
InFlight(l) == l # Arrived(l.req) /\ l.pc # "done"

\* Switch leaving the issues list where it is, as a list of the module would be
SwitchSharingIssues ==
    /\ parked # <<>>
    /\ parked' = << [Locals EXCEPT !.issues = parked[1].issues,
                                   !.overlapped = parked[1].overlapped
                                                  \/ (InFlight(Locals)
                                                      /\ InFlight(parked[1]))] >>
    /\ req' = parked[1].req
    /\ pc' = parked[1].pc
    /\ ctx' = parked[1].ctx
    /\ issues' = issues
    /\ tool_idx' = parked[1].tool_idx
    /\ calls' = parked[1].calls
    /\ procs' = parked[1].procs
    /\ read_text' = parked[1].read_text
    /\ preflight' = parked[1].preflight
    /\ outcome' = parked[1].outcome
    /\ UNCHANGED <<parseVars, fastfiles, environ, listVars, slots, gathered>>

\* the running coroutine is suspended with its locals and the other resumed
Switch ==
    /\ parked # <<>>
    /\ parked' = << [Locals EXCEPT !.overlapped = parked[1].overlapped
                                                  \/ (InFlight(Locals)
                                                      /\ InFlight(parked[1]))] >>
    /\ req' = parked[1].req
    /\ pc' = parked[1].pc
    /\ ctx' = parked[1].ctx
    /\ issues' = parked[1].issues
    /\ tool_idx' = parked[1].tool_idx
    /\ calls' = parked[1].calls
    /\ procs' = parked[1].procs
    /\ read_text' = parked[1].read_text
    /\ preflight' = parked[1].preflight
    /\ outcome' = parked[1].outcome
    /\ UNCHANGED <<parseVars, fastfiles, environ, listVars, slots, gathered>>

ConcNext ==
    \/ BuildPathRejected
    \/ BuildPathValidated
    \/ PreflightEnvironment
    \/ ToolLookup
    \/ PreflightProject
    \/ BuildPreflightFailed
    \/ ExecuteFastlaneRejected
    \/ ExecuteFastlaneStart
    \/ FastlaneExit
    \/ Switch

ConcSpec == ConcInit /\ [][ConcNext]_vars

\* what a request with locals l gets when it runs alone with the same
\* filesystem and environment and the same results of its own processes:
\* the PreflightContext it builds,
AloneContext(l) ==
    IF l.req.op \in BuildOps
    THEN PreflightContext(validate_project_path(l.req.project_path).value,
                          BuildPlatform(l.req.op), l.req.lane, <<>>, BuildTools(l.req.op))
    ELSE l.req.ctx

\* the issues of its own lookups that failed,
RECURSIVE AloneToolIssues(_)
AloneToolIssues(ps) ==
    IF ps = <<>> THEN <<>>
    ELSE (IF Head(ps).command = "which" /\ Head(ps).result.exit_code # 0
          THEN <<ToolMissing(Head(ps).args[1])>>
          ELSE <<>>)
         \o AloneToolIssues(Tail(ps))

\* the ValidationResult of its pre-flight,
AloneResult(l) ==
    LET c == AloneContext(l)
        found == (IF c.required_env_vars # <<>>
                  THEN validate_environment(c.required_env_vars)
                  ELSE <<>>)
                 \o AloneToolIssues(l.procs)
                 \o (IF c.project_path # NoPath /\ c.project_path # <<>>
                     THEN validate_project(c.project_path, c.platform, c.lane, l.read_text)
                     ELSE <<>>)
    IN  ValidationResult(~HasErrors(found), found)

\* and what it returns or raises
AloneOutcome(l) ==
    IF l.req.op \notin BuildOps
    THEN [kind |-> "returned", value |-> AloneResult(l)]
    ELSE IF ~validate_project_path(l.req.project_path).ok
    THEN ToolError([header |-> validate_project_path(l.req.project_path).error])
    ELSE IF ~AloneResult(l).valid
    THEN ToolError([header |-> "Pre-flight checks failed:",
                    body |-> FormatIssues(AloneResult(l).issues)])
    ELSE IF ~sanitize_lane_name(l.req.lane).ok
    THEN [kind |-> "raised", type |-> "ValidationError",
          message |-> [header |-> sanitize_lane_name(l.req.lane).error]]
    ELSE LET result == l.procs[Len(l.procs)].result
         IN  IF result.exit_code # 0
             THEN ToolError(FormatBuildError(diagnose_error(StderrOrStdout(result)),
                                             result.stdout, result.stderr))
             ELSE [kind |-> "returned",
                   value |-> [success |-> TRUE, output |-> result.stdout]]

\* the processes of l are those of its own request
OwnProcesses(l) ==
    \A i \in 1..Len(l.procs) :
        IF l.procs[i].command = "which"
        THEN /\ i <= Len(AloneContext(l).required_tools)
             /\ l.procs[i].args = <<AloneContext(l).required_tools[i]>>
        ELSE /\ l.procs[i].command = "fastlane"
             /\ l.procs[i].args = <<sanitize_lane_name(l.req.lane).value>>
             /\ l.procs[i].env = EnvVars(l.req.environment)
             /\ l.procs[i].cwd = find_execution_dir(AloneContext(l).project_path,
                                                    BuildPlatform(l.req.op))

Isolated(l) ==
    /\ OwnProcesses(l)
    /\ l.ctx.built => l.ctx = AloneContext(l)
    /\ l.preflight.returned => l.preflight = AloneResult(l)
    /\ l.pc = "done" => l.outcome = AloneOutcome(l)
    /\ l.pc # "done" => l.outcome = NoOutcome

\* C26: two requests interleaved at their await points do not affect each
\* other: the processes, the ValidationResult and the outcome of each are
\* those it gets alone from its own arguments, the filesystem, the
\* environment and the results of its own processes.
C26_ConcurrentRequestsAreIsolated ==
    /\ Isolated(Locals)
    /\ \A i \in 1..Len(parked) : Isolated(parked[i])

C26_Witness ==
    /\ parked # <<>>
    /\ parked[1].overlapped
    /\ pc = "done"
    /\ parked[1].pc = "done"
    /\ req.op = "build_ios"
    /\ outcome.kind = "returned"
    /\ parked[1].req.op = "run_preflight"
    /\ Len(parked[1].preflight.issues) = 3

====
